---- MODULE Spec2Model ----
(***************************************************************************)
(* Omega Tanks: the stepping interpreter of the Omega language, the world  *)
(* primitives it drives (move, turn, scan, attack, line of sight), the     *)
(* enemy policy and the tick driver of the UI component.                   *)
(*                                                                         *)
(* Numbers of the language are JavaScript numbers.  A number is modelled   *)
(* as the record [n |-> i, h |-> b] standing for i + b/2 (b in 0..1), so   *)
(* that Math.floor, Math.max and the loop test i < amount are computed and *)
(* are not the identity.  Strings are TLA+ strings, built with \o.         *)
(***************************************************************************)
EXTENDS Integers, Sequences, FiniteSets, TLC

VARIABLES
  world,      \* React state `world`: player, enemy, tick, message
  rt,         \* React state `rt`: pc, stack, vars, enemySeen
  prog,       \* React state `prog`: stmts, functions
  last,       \* observation of the most recent operation (pre/post values)
  run,        \* stepOnce calls since the runtime was fresh; -1 once the program was edited
  call,       \* observation of the first CALL of a defined function and its drain
  ticks,      \* number of stepOnce calls so far
  edits,      \* number of code edits so far
  resets,     \* number of resets so far
  mounted,    \* the component is mounted and responsive (no updater threw or hung)
  shown,      \* the prog and rt captured by the stepOnce closure of the latest render
  look,       \* lineOfSight of one observer to every cell of the grid
  sweep,      \* the (seen, dirOk) pairs lineOfSight returned, observer cell by observer cell
  parsedText,     \* a source text, its tokens and the program parseProgram returns for it
  start           \* the world as it was constructed, before any step

appVars == <<world, rt, prog, last, run, call, ticks, edits, resets, mounted, shown>>
probeVars == <<look, sweep, parsedText>>
vars == <<world, rt, prog, last, run, call, ticks, edits, resets, mounted, shown, look, sweep, parsedText,
          start>>

---------------------------------------------------------------------------
(* Bounds of the exploration *)
MaxTicks == 10
MaxEdits == 1
MaxResets == 1

---------------------------------------------------------------------------
(* Program constants *)
GRID == 20
MAX_HP == 100
ATTACK_DAMAGE == 40
ATTACK_RANGE == 3
ENEMY_DAMAGE == 15
ENEMY_RANGE == 3
NOT_ALIGNED == 999

DIRS == <<[dx |-> 0, dy |-> -1], [dx |-> 1, dy |-> 0],
          [dx |-> 0, dy |-> 1], [dx |-> -1, dy |-> 0]>>

(* DIRS[d] with the 0-based index of the source *)
DirVec(d) == DIRS[d + 1]

Min2(a, b) == IF a < b THEN a ELSE b
Max2(a, b) == IF a > b THEN a ELSE b
clamp_noLower(v, lo, hi) == Min2(hi, v)
clamp(v, lo, hi) == Max2(lo, Min2(hi, v))
MathSign(v) == IF v > 0 THEN 1 ELSE IF v < 0 THEN -1 ELSE 0
MathAbs(v) == IF v < 0 THEN -v ELSE v

---------------------------------------------------------------------------
(* JavaScript values.  A finite number [n, h] is n + h/2; the other numbers
   are the infinities and NaN; a function value is no number. *)
Num(i) == [n |-> i, h |-> 0]
NumHalf(i) == [n |-> i, h |-> 1]
Infinity == [inf |-> 1]
NegInfinity == [inf |-> -1]
NaN == [nan |-> TRUE]
Native(name) == [native |-> name]
IsFinite(v) == "n" \in DOMAIN v
IsInf(v) == "inf" \in DOMAIN v
IsNaN(v) == "nan" \in DOMAIN v
IsNative(v) == "native" \in DOMAIN v
(* the conversion the Math functions and the comparison apply to an operand *)
ToNumber(v) == IF IsNative(v) THEN NaN ELSE v
(* v === 0 *)
IsZero(v) == IsFinite(v) /\ v.n = 0 /\ v.h = 0
(* a < b *)
NumLt(a, b) ==
  LET x == ToNumber(a)
      y == ToNumber(b)
  IN IF IsNaN(x) \/ IsNaN(y) THEN FALSE
     ELSE IF IsInf(x) THEN x.inf < 0 /\ ~(IsInf(y) /\ y.inf < 0)
     ELSE IF IsInf(y) THEN y.inf > 0
     ELSE x.n < y.n \/ (x.n = y.n /\ x.h < y.h)
MathFloor(v) == LET x == ToNumber(v) IN IF IsFinite(x) THEN Num(x.n) ELSE x
MathMax(a, b) ==
  LET x == ToNumber(a)
      y == ToNumber(b)
  IN IF IsNaN(x) \/ IsNaN(y) THEN NaN ELSE IF NumLt(x, y) THEN y ELSE x
(* template-literal formatting of a value *)
NumStr(v) ==
  IF IsNative(v) THEN "function " \o v.native \o "() { [native code] }"
  ELSE IF IsNaN(v) THEN "NaN"
  ELSE IF IsInf(v) THEN (IF v.inf > 0 THEN "Infinity" ELSE "-Infinity")
  ELSE IF v.h = 0 THEN ToString(v.n)
  ELSE IF v.n >= 0 THEN ToString(v.n) \o ".5"
  ELSE "-" \o ToString(-v.n - 1) \o ".5"

---------------------------------------------------------------------------
(* Statements and expressions *)
NumberExpr(v) == [kind |-> "number", value |-> v]
VarExpr(name) == [kind |-> "var", name |-> name]
Undefined == [kind |-> "undefined"]
AssignStmt(name, e) == [kind |-> "assign", name |-> name, value |-> e]
MoveStmt(e, d) == [kind |-> "move", amount |-> e, dir |-> d]
TurnStmt(d) == [kind |-> "turn", dir |-> d]
ScanStmt == [kind |-> "scan"]
AttackStmt == [kind |-> "attack"]
IfStmt(c, t, e) == [kind |-> "if", cond |-> c, thenStmt |-> t, elseStmt |-> e]
CallStmt(name) == [kind |-> "call", name |-> name]
NoopStmt == [kind |-> "noop"]
FunctionStmt(name, body) == [kind |-> "function", name |-> name, body |-> body]

NoFunctions == [f \in {} |-> <<>>]
NoVars == [v \in {} |-> Num(0)]

---------------------------------------------------------------------------
(* World and runtime construction *)
makeInitialWorld ==
  [player |-> [x |-> 2, y |-> GRID - 3, dir |-> 0, hp |-> MAX_HP],
   enemy |-> [x |-> GRID - 3, y |-> 2, dir |-> 2, hp |-> MAX_HP],
   tick |-> 0,
   message |-> ""]

makeRuntime == [pc |-> 0, stack |-> <<>>, vars |-> NoVars, enemySeen |-> Num(0)]

(* What obj[name] yields for a name that is no own property of a plain object:
   the members of Object.prototype, each a function value.  Read as a list, a
   function has its arity as length and undefined at every index. *)
ObjectPrototype ==
  ("toString" :> 0) @@ ("valueOf" :> 0) @@ ("toLocaleString" :> 0) @@
  ("constructor" :> 1) @@ ("hasOwnProperty" :> 1) @@ ("isPrototypeOf" :> 1) @@
  ("propertyIsEnumerable" :> 1)

(* rt.vars[expr.name] ?? 0: an own entry, else an inherited member, else 0 *)
getVal(expr, r) ==
  IF expr.kind = "number" THEN expr.value
  ELSE IF expr.name \in DOMAIN r.vars THEN r.vars[expr.name]
  ELSE IF expr.name \in DOMAIN ObjectPrototype THEN Native(expr.name)
  ELSE Num(0)

---------------------------------------------------------------------------
(* Game API operations used by Omega *)

(* the unit vector tankMove derives from the direction word *)
MoveVec(p, dirWord) ==
  CASE dirWord = "FORWARD" -> [dx |-> DirVec(p.dir).dx, dy |-> DirVec(p.dir).dy]
    [] dirWord = "BACKWARD" -> [dx |-> -DirVec(p.dir).dx, dy |-> -DirVec(p.dir).dy]
    [] dirWord = "LEFT" -> [dx |-> DirVec((p.dir + 3) % 4).dx, dy |-> DirVec((p.dir + 3) % 4).dy]
    [] dirWord = "RIGHT" -> [dx |-> DirVec((p.dir + 1) % 4).dx, dy |-> DirVec((p.dir + 1) % 4).dy]
    [] OTHER -> [dx |-> 0, dy |-> 0]

(* one iteration of the loop body of tankMove *)
MoveUnit(p, d) ==
  [p EXCEPT !.x = clamp(p.x + d.dx, 0, GRID - 1),
            !.y = clamp(p.y + d.dy, 0, GRID - 1)]

(* for (let i = 0; i < amount; i++) { ... } *)
RECURSIVE MoveLoop(_, _, _, _)
MoveLoop(p, d, i, amount) ==
  IF NumLt(Num(i), amount) THEN MoveLoop(MoveUnit(p, d), d, i + 1, amount) ELSE p

tankMove(w, dirWord, amount) ==
  [w EXCEPT !.player = MoveLoop(w.player, MoveVec(w.player, dirWord), 0, amount)]

(* variant: the facing is not wrapped into 0..3 *)
tankTurn_noWrap(w, side) ==
  [w EXCEPT !.player.dir = w.player.dir + (IF side = "RIGHT" THEN 1 ELSE 3)]

tankTurn(w, side) ==
  [w EXCEPT !.player.dir = (w.player.dir + (IF side = "RIGHT" THEN 1 ELSE 3)) % 4]

(* variant: a target on the observer's own cell counts as seen *)
lineOfSight_sameCell(a, b) ==
  IF a.x = b.x THEN
    LET dy == MathSign(b.y - a.y)
        dist == MathAbs(b.y - a.y)
        facing == (dy < 0 /\ a.dir = 0) \/ (dy > 0 /\ a.dir = 2)
    IN [seen |-> TRUE, distance |-> dist, dirOk |-> facing]
  ELSE IF a.y = b.y THEN
    LET dx == MathSign(b.x - a.x)
        dist == MathAbs(b.x - a.x)
        facing == (dx > 0 /\ a.dir = 1) \/ (dx < 0 /\ a.dir = 3)
    IN [seen |-> TRUE, distance |-> dist, dirOk |-> facing]
  ELSE [seen |-> FALSE, distance |-> NOT_ALIGNED, dirOk |-> FALSE]

(* variant: facing is judged by the facing alone, whatever the offset *)
lineOfSight_facingOnly(a, b) ==
  IF a.x = b.x THEN
    LET dist == MathAbs(b.y - a.y)
        facing == a.dir = 0 \/ a.dir = 2
    IN [seen |-> dist > 0, distance |-> dist, dirOk |-> facing]
  ELSE IF a.y = b.y THEN
    LET dist == MathAbs(b.x - a.x)
        facing == a.dir = 1 \/ a.dir = 3
    IN [seen |-> dist > 0, distance |-> dist, dirOk |-> facing]
  ELSE [seen |-> FALSE, distance |-> NOT_ALIGNED, dirOk |-> FALSE]

lineOfSight(a, b) ==
  IF a.x = b.x THEN
    LET dy == MathSign(b.y - a.y)
        dist == MathAbs(b.y - a.y)
        facing == (dy < 0 /\ a.dir = 0) \/ (dy > 0 /\ a.dir = 2)
    IN [seen |-> dist > 0, distance |-> dist, dirOk |-> facing]
  ELSE IF a.y = b.y THEN
    LET dx == MathSign(b.x - a.x)
        dist == MathAbs(b.x - a.x)
        facing == (dx > 0 /\ a.dir = 1) \/ (dx < 0 /\ a.dir = 3)
    IN [seen |-> dist > 0, distance |-> dist, dirOk |-> facing]
  ELSE [seen |-> FALSE, distance |-> NOT_ALIGNED, dirOk |-> FALSE]

(* returns the pair the source mutates: world and runtime *)
tankScan(w, r) ==
  LET los == lineOfSight(w.player, w.enemy)
      seenNum == IF los.seen THEN Num(1) ELSE Num(0)
  IN [world |-> [w EXCEPT !.message =
                   IF los.seen
                   THEN "Enemy spotted at " \o ToString(los.distance) \o " tiles."
                   ELSE "No enemy in sight."],
      rt |-> [r EXCEPT !.enemySeen = seenNum,
                       !.vars = ("ENEMY" :> seenNum) @@ r.vars]]

(* variant: the facing is not required *)
tankAttack_noFacing(w) ==
  LET los == lineOfSight(w.player, w.enemy) IN
  IF los.seen /\ los.distance <= ATTACK_RANGE
  THEN [w EXCEPT !.enemy.hp = Max2(0, w.enemy.hp - ATTACK_DAMAGE),
                 !.message = "ATTACK hit! Enemy -40 HP"]
  ELSE [w EXCEPT !.message = "ATTACK missed."]

(* variant: the health is not kept at 0 or above *)
tankAttack_overkill(w) ==
  LET los == lineOfSight(w.player, w.enemy) IN
  IF los.seen /\ los.dirOk /\ los.distance <= ATTACK_RANGE
  THEN [w EXCEPT !.enemy.hp = w.enemy.hp - ATTACK_DAMAGE,
                 !.message = "ATTACK hit! Enemy -40 HP"]
  ELSE [w EXCEPT !.message = "ATTACK missed."]

tankAttack(w) ==
  LET los == lineOfSight(w.player, w.enemy) IN
  IF los.seen /\ los.dirOk /\ los.distance <= ATTACK_RANGE
  THEN [w EXCEPT !.enemy.hp = Max2(0, w.enemy.hp - ATTACK_DAMAGE),
                 !.message = "ATTACK hit! Enemy -40 HP"]
  ELSE [w EXCEPT !.message = "ATTACK missed."]

---------------------------------------------------------------------------
(* Step one statement.  The result holds the world and runtime as the call *)
(* leaves them, the returned flag, and the world primitives it applied.    *)

StepResult(w, r, did, prims) ==
  [world |-> w, rt |-> r, did |-> did, prims |-> prims, threw |-> FALSE, hung |-> FALSE]

(* the call ends with an exception (TypeError) before it changes anything *)
StepThrow(w, r) ==
  [world |-> w, rt |-> r, did |-> FALSE, prims |-> <<>>, threw |-> TRUE, hung |-> FALSE]

(* the call never returns: the loop of tankMove has no last iteration *)
StepHang(w, r) ==
  [world |-> w, rt |-> r, did |-> FALSE, prims |-> <<>>, threw |-> FALSE, hung |-> TRUE]

NativeList(name) == [i \in 1..ObjectPrototype[name] |-> Undefined]

(* prog.functions[name] is not undefined: an own entry or an inherited member *)
HasFunction(p, name) == name \in DOMAIN p.functions \/ name \in DOMAIN ObjectPrototype
(* prog.functions[name] where it is not undefined *)
LookupFunction(p, name) ==
  IF name \in DOMAIN p.functions THEN p.functions[name] ELSE NativeList(name)

(* variant: the counter skips a statement *)
advance_twice(r) ==
  IF r.stack # <<>> THEN [r EXCEPT !.stack[Len(r.stack)].pc = @ + 2]
  ELSE [r EXCEPT !.pc = @ + 2]

(* advance(): the program counter of the frame that was active when the call began *)
advance(r) ==
  IF r.stack # <<>> THEN [r EXCEPT !.stack[Len(r.stack)].pc = @ + 1]
  ELSE [r EXCEPT !.pc = @ + 1]

(* rt.stack.push(frame) *)
push(r, f) == [r EXCEPT !.stack = Append(@, f)]

(* variant: a finished program starts over *)
StepPastEnd_restart(w, r) ==
  IF r.stack # <<>>
  THEN StepResult(w, [r EXCEPT !.stack = SubSeq(@, 1, Len(@) - 1)], TRUE, <<>>)
  ELSE StepResult(w, [r EXCEPT !.pc = 0], TRUE, <<>>)

(* variant: popping a frame also advances the frame below *)
StepPastEnd_popAdvances(w, r) ==
  IF r.stack # <<>>
  THEN StepResult(w, advance([r EXCEPT !.stack = SubSeq(@, 1, Len(@) - 1)]), TRUE, <<>>)
  ELSE StepResult(w, r, FALSE, <<>>)

(* the active program counter is past the end of the active list *)
StepPastEnd(w, r) ==
  IF r.stack # <<>>
  THEN StepResult(w, [r EXCEPT !.stack = SubSeq(@, 1, Len(@) - 1)], TRUE, <<>>)
  ELSE StepResult(w, r, FALSE, <<>>)

StepAssign(w, r, stmt) ==
  LET v == getVal(stmt.value, r)
      r1 == [r EXCEPT !.vars = (stmt.name :> v) @@ r.vars]
  IN StepResult([w EXCEPT !.message = "$" \o stmt.name \o " = " \o NumStr(v)],
                advance(r1), TRUE, <<>>)

(* variant: the amount is not floored *)
StepMove_noFloor(w, r, stmt) ==
  LET amt == MathMax(Num(0), getVal(stmt.amount, r))
      w1 == tankMove(w, stmt.dir, amt)
  IN StepResult([w1 EXCEPT !.message = "MOVE " \o NumStr(amt) \o " " \o stmt.dir],
                advance(r), TRUE, <<"move">>)

(* i < Infinity holds for every i, so tankMove does not return for that amount *)
StepMove(w, r, stmt) ==
  LET amt == MathMax(Num(0), MathFloor(getVal(stmt.amount, r)))
      w1 == tankMove(w, stmt.dir, amt)
  IN IF IsInf(amt) THEN StepHang(w, r)
     ELSE StepResult([w1 EXCEPT !.message = "MOVE " \o NumStr(amt) \o " " \o stmt.dir],
                     advance(r), TRUE, <<"move">>)

StepTurn(w, r, stmt) ==
  StepResult([tankTurn(w, stmt.dir) EXCEPT !.message = "TURN " \o stmt.dir],
             advance(r), TRUE, <<"turn">>)

StepScan(w, r) ==
  LET sc == tankScan(w, r)
  IN StepResult(sc.world, advance(sc.rt), TRUE, <<"scan">>)

StepAttack(w, r) == StepResult(tankAttack(w), advance(r), TRUE, <<"attack">>)

(* variant: the enclosing counter advances when a branch is taken *)
StepIf_advance(w, r, stmt) ==
  LET cond == getVal(stmt.cond, r)
      chosen == IF ~IsZero(cond) THEN stmt.thenStmt ELSE stmt.elseStmt
  IN IF chosen # Undefined
     THEN StepResult(w, push(advance(r), [name |-> "<if>", pc |-> 0, body |-> <<chosen>>]),
                     TRUE, <<>>)
     ELSE StepResult([w EXCEPT !.message = "IF (" \o NumStr(cond) \o ") no-op"],
                     advance(r), TRUE, <<>>)

(* variant: taking a branch is reported in the message *)
StepIf_reports(w, r, stmt) ==
  LET cond == getVal(stmt.cond, r)
      chosen == IF ~IsZero(cond) THEN stmt.thenStmt ELSE stmt.elseStmt
  IN IF chosen # Undefined
     THEN StepResult([w EXCEPT !.message = "IF (" \o NumStr(cond) \o ")"],
                     push(r, [name |-> "<if>", pc |-> 0, body |-> <<chosen>>]), TRUE, <<>>)
     ELSE StepResult([w EXCEPT !.message = "IF (" \o NumStr(cond) \o ") no-op"],
                     advance(r), TRUE, <<>>)

StepIf(w, r, stmt) ==
  LET cond == getVal(stmt.cond, r)
      chosen == IF ~IsZero(cond) THEN stmt.thenStmt ELSE stmt.elseStmt
  IN IF chosen # Undefined
     THEN StepResult(w, push(r, [name |-> "<if>", pc |-> 0, body |-> <<chosen>>]), TRUE, <<>>)
     ELSE StepResult([w EXCEPT !.message = "IF (" \o NumStr(cond) \o ") no-op"],
                     advance(r), TRUE, <<>>)

(* variant: the callee starts at its second statement *)
StepCall_skipFirst(w, p, r, stmt) ==
  LET r1 == advance(r)
      r2 == IF stmt.name \in DOMAIN p.functions
            THEN push(r1, [name |-> stmt.name, pc |-> 1, body |-> p.functions[stmt.name]])
            ELSE r1
  IN StepResult([w EXCEPT !.message = "CALL " \o stmt.name], r2, TRUE, <<>>)

(* variant: no frame is pushed on a stack of 8 frames *)
StepCall_depthLimit(w, p, r, stmt) ==
  LET r1 == advance(r)
      r2 == IF HasFunction(p, stmt.name) /\ Len(r.stack) < 8
            THEN push(r1, [name |-> stmt.name, pc |-> 0, body |-> LookupFunction(p, stmt.name)])
            ELSE r1
  IN StepResult([w EXCEPT !.message = "CALL " \o stmt.name], r2, TRUE, <<>>)

(* the source pushes and then advances the caller's frame, which it captured
   before the push; here the caller is advanced while it is still on top *)
StepCall(w, p, r, stmt) ==
  LET r1 == advance(r)
      r2 == IF HasFunction(p, stmt.name)
            THEN push(r1, [name |-> stmt.name, pc |-> 0, body |-> LookupFunction(p, stmt.name)])
            ELSE r1
  IN StepResult([w EXCEPT !.message = "CALL " \o stmt.name], r2, TRUE, <<>>)

(* case "noop" and case "function" *)
StepSkip(w, r) == StepResult(w, advance(r), TRUE, <<>>)

stepProgram(w, p, r) ==
  LET hasFrame == r.stack # <<>>
      frame == r.stack[Len(r.stack)]
      list == IF hasFrame THEN frame.body ELSE p.stmts
      pc == IF hasFrame THEN frame.pc ELSE r.pc
      stmt == list[pc + 1]
  IN
  IF pc >= Len(list) THEN StepPastEnd(w, r)
  ELSE
    CASE stmt.kind = "assign" -> StepAssign(w, r, stmt)
      [] stmt.kind = "move" -> StepMove(w, r, stmt)
      [] stmt.kind = "turn" -> StepTurn(w, r, stmt)
      [] stmt.kind = "scan" -> StepScan(w, r)
      [] stmt.kind = "attack" -> StepAttack(w, r)
      [] stmt.kind = "if" -> StepIf(w, r, stmt)
      [] stmt.kind = "call" -> StepCall(w, p, r, stmt)
      [] stmt.kind = "noop" -> StepSkip(w, r)
      [] stmt.kind = "function" -> StepSkip(w, r)
      [] stmt.kind = "undefined" -> StepThrow(w, r)

---------------------------------------------------------------------------
(* Enemy AI *)

(* variant: the fire replaces the message *)
enemyStep_replaceMessage(w) ==
  LET e == w.enemy
      p == w.player
      los == lineOfSight(e, p)
      dx == MathSign(p.x - e.x)
      dy == MathSign(p.y - e.y)
      pref == IF MathAbs(dx) > MathAbs(dy)
              THEN (IF dx > 0 THEN 1 ELSE 3)
              ELSE (IF dy > 0 THEN 2 ELSE 0)
      d == DirVec(pref)
  IN
  IF e.hp <= 0 THEN w
  ELSE IF los.seen /\ los.distance <= ENEMY_RANGE /\ los.dirOk
  THEN [w EXCEPT !.player.hp = Max2(0, p.hp - ENEMY_DAMAGE),
                 !.message = "Enemy fires (-15 HP)"]
  ELSE [w EXCEPT !.enemy.dir = pref,
                 !.enemy.x = clamp(e.x + d.dx, 0, GRID - 1),
                 !.enemy.y = clamp(e.y + d.dy, 0, GRID - 1)]

(* variant: the enemy closes in and never fires *)
enemyStep_holdsFire(w) ==
  LET e == w.enemy
      p == w.player
      los == lineOfSight(e, p)
      dx == MathSign(p.x - e.x)
      dy == MathSign(p.y - e.y)
      pref == IF MathAbs(dx) > MathAbs(dy)
              THEN (IF dx > 0 THEN 1 ELSE 3)
              ELSE (IF dy > 0 THEN 2 ELSE 0)
      d == DirVec(pref)
  IN
  IF e.hp <= 0 THEN w
  ELSE IF los.seen /\ los.distance <= ENEMY_RANGE /\ los.dirOk
  THEN w
  ELSE [w EXCEPT !.enemy.dir = pref,
                 !.enemy.x = clamp(e.x + d.dx, 0, GRID - 1),
                 !.enemy.y = clamp(e.y + d.dy, 0, GRID - 1)]

(* variant: the enemy turns but does not step onto the actor's cell *)
enemyStep_keepsDistance(w) ==
  LET e == w.enemy
      p == w.player
      los == lineOfSight(e, p)
      dx == MathSign(p.x - e.x)
      dy == MathSign(p.y - e.y)
      pref == IF MathAbs(dx) > MathAbs(dy)
              THEN (IF dx > 0 THEN 1 ELSE 3)
              ELSE (IF dy > 0 THEN 2 ELSE 0)
      d == DirVec(pref)
      nx == clamp(e.x + d.dx, 0, GRID - 1)
      ny == clamp(e.y + d.dy, 0, GRID - 1)
  IN
  IF e.hp <= 0 THEN w
  ELSE IF los.seen /\ los.distance <= ENEMY_RANGE /\ los.dirOk
  THEN [w EXCEPT !.player.hp = Max2(0, p.hp - ENEMY_DAMAGE),
                 !.message = @ \o " | Enemy fires (-15 HP)"]
  ELSE IF nx = p.x /\ ny = p.y
  THEN [w EXCEPT !.enemy.dir = pref]
  ELSE [w EXCEPT !.enemy.dir = pref, !.enemy.x = nx, !.enemy.y = ny]

(* variant: the policy counts the tick itself *)
enemyStep_countsTick(w) ==
  LET e == w.enemy
      p == w.player
      los == lineOfSight(e, p)
      dx == MathSign(p.x - e.x)
      dy == MathSign(p.y - e.y)
      pref == IF MathAbs(dx) > MathAbs(dy)
              THEN (IF dx > 0 THEN 1 ELSE 3)
              ELSE (IF dy > 0 THEN 2 ELSE 0)
      d == DirVec(pref)
  IN
  IF e.hp <= 0 THEN w
  ELSE IF los.seen /\ los.distance <= ENEMY_RANGE /\ los.dirOk
  THEN [w EXCEPT !.player.hp = Max2(0, p.hp - ENEMY_DAMAGE),
                 !.message = @ \o " | Enemy fires (-15 HP)",
                 !.tick = @ + 1]
  ELSE [w EXCEPT !.enemy.dir = pref,
                 !.enemy.x = clamp(e.x + d.dx, 0, GRID - 1),
                 !.enemy.y = clamp(e.y + d.dy, 0, GRID - 1),
                 !.tick = @ + 1]

(* variant: a destroyed enemy keeps acting *)
enemyStep_undead(w) ==
  LET e == w.enemy
      p == w.player
      los == lineOfSight(e, p)
      dx == MathSign(p.x - e.x)
      dy == MathSign(p.y - e.y)
      pref == IF MathAbs(dx) > MathAbs(dy)
              THEN (IF dx > 0 THEN 1 ELSE 3)
              ELSE (IF dy > 0 THEN 2 ELSE 0)
      d == DirVec(pref)
  IN
  IF los.seen /\ los.distance <= ENEMY_RANGE /\ los.dirOk
  THEN [w EXCEPT !.player.hp = Max2(0, p.hp - ENEMY_DAMAGE),
                 !.message = @ \o " | Enemy fires (-15 HP)"]
  ELSE [w EXCEPT !.enemy.dir = pref,
                 !.enemy.x = clamp(e.x + d.dx, 0, GRID - 1),
                 !.enemy.y = clamp(e.y + d.dy, 0, GRID - 1)]

enemyStep(w) ==
  LET e == w.enemy
      p == w.player
      los == lineOfSight(e, p)
      dx == MathSign(p.x - e.x)
      dy == MathSign(p.y - e.y)
      pref == IF MathAbs(dx) > MathAbs(dy)
              THEN (IF dx > 0 THEN 1 ELSE 3)
              ELSE (IF dy > 0 THEN 2 ELSE 0)
      d == DirVec(pref)
  IN
  IF e.hp <= 0 THEN w
  ELSE IF los.seen /\ los.distance <= ENEMY_RANGE /\ los.dirOk
  THEN [w EXCEPT !.player.hp = Max2(0, p.hp - ENEMY_DAMAGE),
                 !.message = @ \o " | Enemy fires (-15 HP)"]
  ELSE [w EXCEPT !.enemy.dir = pref,
                 !.enemy.x = clamp(e.x + d.dx, 0, GRID - 1),
                 !.enemy.y = clamp(e.y + d.dy, 0, GRID - 1)]

(* the win/lose messages stepOnce appends after the enemy has acted *)
WinLose(w) ==
  LET m1 == IF w.enemy.hp <= 0
            THEN (IF w.message # "" THEN w.message \o " | " ELSE "") \o "Enemy destroyed!"
            ELSE w.message
      m2 == IF w.player.hp <= 0
            THEN (IF m1 # "" THEN m1 \o " | " ELSE "") \o "You were destroyed."
            ELSE m1
  IN [w EXCEPT !.message = m2]

---------------------------------------------------------------------------
(* Parsing.  Source text is a sequence of lines and a line a sequence of   *)
(* lexemes: maximal runs of non-blank characters, with ";", ":" and "="    *)
(* lexemes of their own.  A token of the lexer is a sequence of lexemes;   *)
(* the lines of a function block are joined with the lexeme NL.  Keywords  *)
(* are written in upper case in the modelled sources.                      *)

MaxLiteral == 30
NL == "\n"
Identifiers == {"MOVEMENT", "ENEMY", "Patrol", "F", "G", "X", "toString", "constructor",
                "MOVE", "TURN", "IF", "THEN", "ELSE", "ATTACK", "SCAN_FOR_ENEMY",
                "CALL", "FUNCTION", "END", "FORWARD", "BACKWARD", "LEFT", "RIGHT"}
DirWords == {"FORWARD", "BACKWARD", "LEFT", "RIGHT"}
Literals == {Num(i) : i \in -MaxLiteral..MaxLiteral} \cup
            {NumHalf(i) : i \in -MaxLiteral..(MaxLiteral - 1)} \cup
            {Infinity, NegInfinity}

(* index of the first TRUE of a sequence of booleans, Len + 1 if none *)
FirstTrue(b) ==
  IF \E i \in 1..Len(b) : b[i]
  THEN CHOOSE i \in 1..Len(b) : b[i] /\ \A j \in 1..(i - 1) : ~b[j]
  ELSE Len(b) + 1

(* index of the first element of s equal to x, Len(s) + 1 if none *)
IndexOf(s, x) == FirstTrue([i \in 1..Len(s) |-> s[i] = x])

(* s.split(sep) on lexemes: the pieces between the occurrences of sep *)
RECURSIVE Split(_, _)
Split(s, sep) ==
  LET i == IndexOf(s, sep)
  IN IF i > Len(s) THEN <<s>>
     ELSE <<SubSeq(s, 1, i - 1)>> \o Split(SubSeq(s, i + 1, Len(s)), sep)

RECURSIVE Join(_, _)
Join(pieces, sep) ==
  IF pieces = <<>> THEN <<>>
  ELSE IF Len(pieces) = 1 THEN pieces[1]
  ELSE pieces[1] \o <<sep>> \o Join(Tail(pieces), sep)

NonEmpty(l) == l # <<>>

stripComments(code) ==
  [i \in 1..Len(code) |->
     SubSeq(code[i], 1, IndexOf(code[i], "//") - 1)]

IsFunctionHeader(line) == Len(line) >= 2 /\ line[1] = "FUNCTION" /\ line[2] \notin {";", ":", "="}
IsEndLine(line) == Len(line) >= 1 /\ line[1] = "END"

RECURSIVE TokenizeFrom(_, _)
TokenizeFrom(lines, i) ==
  IF i > Len(lines) THEN <<>>
  ELSE IF IsFunctionHeader(lines[i]) THEN
    LET rest == SubSeq(lines, i + 1, Len(lines))
        j == i + FirstTrue([k \in 1..Len(rest) |-> IsEndLine(rest[k])])
        body == SubSeq(lines, i + 1, j - 1)
        next == IF j <= Len(lines) THEN j + 1 ELSE j
    IN <<Join(<<lines[i]>> \o body \o <<(<<"END">>)>>, NL)>> \o TokenizeFrom(lines, next)
  ELSE
    LET parts == SelectSeq(Split(lines[i], ";"), NonEmpty)
    IN [k \in 1..Len(parts) |-> Append(parts[k], ";")] \o TokenizeFrom(lines, i + 1)

(* variant: blank lines are kept *)
tokenize_keepBlank(code) == TokenizeFrom(stripComments(code), 1)

tokenize(code) == TokenizeFrom(SelectSeq(stripComments(code), NonEmpty), 1)

(* Number(v) of one lexeme; NaN where no literal prints as the lexeme *)
IsNumeral(x) == \E v \in Literals : NumStr(v) = x
NumberOf(x) == CHOOSE v \in Literals : NumStr(v) = x
IsVarToken(x) == \E id \in Identifiers : x = "$" \o id
VarName(x) == CHOOSE id \in Identifiers : x = "$" \o id

parseExpr(tok) ==
  IF Len(tok) = 1 /\ IsVarToken(tok[1]) THEN VarExpr(VarName(tok[1]))
  ELSE IF Len(tok) = 0 THEN NumberExpr(Num(0))
  ELSE IF Len(tok) = 1 /\ IsNumeral(tok[1]) THEN NumberExpr(NumberOf(tok[1]))
  ELSE NumberExpr(Num(0))

(* the token without an optional final ";" *)
DropSemi(t) == IF t # <<>> /\ t[Len(t)] = ";" THEN SubSeq(t, 1, Len(t) - 1) ELSE t
WithSemi(t) == IF t # <<>> /\ t[Len(t)] = ";" THEN t ELSE Append(t, ";")

(* the FUNCTION pattern: header "FUNCTION name :", a newline, a body, a newline, END *)
FunctionMatch(t) ==
  /\ Len(t) >= 7
  /\ t[1] = "FUNCTION" /\ t[2] \in Identifiers /\ t[3] = ":" /\ t[4] = NL
  /\ t[Len(t) - 1] = NL /\ t[Len(t)] = "END"

(* the IF pattern: lazy condition, THEN, lazy then-part, optional ELSE with a greedy rest *)
IfThenAt(t) == 2 + IndexOf(SubSeq(t, 3, Len(t)), "THEN")
IfMatch(t) == Len(t) >= 4 /\ t[1] = "IF" /\ IfThenAt(t) < Len(t)
IfCond(t) == SubSeq(t, 2, IfThenAt(t) - 1)
IfRest(t) == SubSeq(t, IfThenAt(t) + 1, Len(t))
(* the lazy then-part ends at the first place where the rest of the pattern matches *)
IfThenLen(t) ==
  LET r == IfRest(t)
      Ends(k) == \/ k = Len(r)
                 \/ (k = Len(r) - 1 /\ r[Len(r)] = ";")
                 \/ (k + 2 <= Len(r) /\ r[k + 1] = "ELSE")
  IN CHOOSE k \in 1..Len(r) : Ends(k) /\ \A j \in 1..(k - 1) : ~Ends(j)
IfThen(t) == SubSeq(IfRest(t), 1, IfThenLen(t))
IfElse(t) ==
  LET r == IfRest(t)
      k == IfThenLen(t)
  IN IF k + 2 <= Len(r) /\ r[k + 1] = "ELSE" THEN SubSeq(r, k + 2, Len(r)) ELSE <<>>

(* the assignment pattern: name, "=", then a greedy group that keeps the final ";" *)
AssignMatch(t) == Len(t) >= 3 /\ t[1] \in Identifiers /\ t[2] = "="
AssignValue(t) == SubSeq(t, 3, Len(t))

(* the MOVE pattern: a greedy amount, then a direction word, then an optional ";" *)
MoveMatch(t) ==
  LET u == DropSemi(t) IN Len(u) >= 3 /\ u[1] = "MOVE" /\ u[Len(u)] \in DirWords
MoveAmount(t) == LET u == DropSemi(t) IN SubSeq(u, 2, Len(u) - 1)
MoveDir(t) == LET u == DropSemi(t) IN u[Len(u)]

TurnMatch(t) == LET u == DropSemi(t) IN Len(u) = 2 /\ u[1] = "TURN" /\ u[2] \in {"LEFT", "RIGHT"}
CallMatch(t) == LET u == DropSemi(t) IN Len(u) = 2 /\ u[1] = "CALL" /\ u[2] \in Identifiers

Null == [kind |-> "null"]
NotNull(st) == st # Null

RECURSIVE parseStmt(_)
parseStmt(t) ==
  IF t = <<>> THEN Null
  ELSE IF FunctionMatch(t) THEN
    LET bodyRaw == SubSeq(t, 5, Len(t) - 2)
        innerTokens == tokenize(Split(bodyRaw, NL))
        parsed == [k \in 1..Len(innerTokens) |-> parseStmt(innerTokens[k])]
    IN FunctionStmt(t[2], SelectSeq(parsed, NotNull))
  ELSE IF IfMatch(t) THEN
    LET elseRaw == IfElse(t)
    IN IfStmt(parseExpr(IfCond(t)),
              parseStmt(WithSemi(IfThen(t))),
              IF elseRaw # <<>> THEN parseStmt(WithSemi(elseRaw)) ELSE Undefined)
  ELSE IF AssignMatch(t) THEN AssignStmt(t[1], parseExpr(AssignValue(t)))
  ELSE IF MoveMatch(t) THEN MoveStmt(parseExpr(MoveAmount(t)), MoveDir(t))
  ELSE IF TurnMatch(t) THEN TurnStmt(DropSemi(t)[2])
  ELSE IF DropSemi(t) = <<"SCAN_FOR_ENEMY">> THEN ScanStmt
  ELSE IF DropSemi(t) = <<"ATTACK">> THEN AttackStmt
  ELSE IF CallMatch(t) THEN CallStmt(DropSemi(t)[2])
  ELSE NoopStmt

(* variant: the first declaration of a name is kept *)
RECURSIVE ParseLoop_firstWins(_, _)
ParseLoop_firstWins(tokens, k) ==
  IF k = 0 THEN [stmts |-> <<>>, functions |-> NoFunctions]
  ELSE
    LET acc == ParseLoop_firstWins(tokens, k - 1)
        st == parseStmt(tokens[k])
    IN IF st = Null THEN acc
       ELSE IF st.kind = "function"
       THEN [acc EXCEPT !.functions = acc.functions @@ (st.name :> st.body)]
       ELSE [acc EXCEPT !.stmts = Append(@, st)]

(* the loop of parseProgram over the first k tokens *)
RECURSIVE ParseLoop(_, _)
ParseLoop(tokens, k) ==
  IF k = 0 THEN [stmts |-> <<>>, functions |-> NoFunctions]
  ELSE
    LET acc == ParseLoop(tokens, k - 1)
        st == parseStmt(tokens[k])
    IN IF st = Null THEN acc
       ELSE IF st.kind = "function"
       THEN [acc EXCEPT !.functions = (st.name :> st.body) @@ acc.functions]
       ELSE [acc EXCEPT !.stmts = Append(@, st)]

parseProgram(code) == LET tokens == tokenize(code) IN ParseLoop(tokens, Len(tokens))

---------------------------------------------------------------------------
(* Sources *)

(* DEFAULT_CODE of the component *)
DEFAULT_CODE ==
  << <<"//", "Omega", "sample">>,
     <<"MOVEMENT", "=", "2", ";">>,
     <<"SCAN_FOR_ENEMY", ";">>,
     <<"IF", "$ENEMY", "THEN", "ATTACK", "ELSE", "MOVE", "$MOVEMENT", "FORWARD", ";">>,
     <<>>,
     <<"FUNCTION", "Patrol", ":">>,
     <<"MOVE", "1", "LEFT", ";">>,
     <<"MOVE", "1", "RIGHT", ";">>,
     <<"END", ";">>,
     <<>>,
     <<"CALL", "Patrol", ";">> >>


(* the scenario of the testable properties: the first three statements of the sample *)
SCENARIO_CODE == SubSeq(DEFAULT_CODE, 2, 4)

(* reach the enemy's column, close in, attack while looking away, then attack four times *)
HUNTER_CODE ==
  << <<"MOVE", "15", "RIGHT", ";", "MOVE", "12", "FORWARD", ";">>,
     <<"TURN", "LEFT", ";", "ATTACK", ";", "TURN", "RIGHT", ";">>,
     <<"ATTACK", ";", "ATTACK", ";", "ATTACK", ";", "ATTACK", ";">> >>

(* reach the enemy's column, close in and wait *)
DUCK_CODE == << <<"MOVE", "15", "RIGHT", ";", "MOVE", "12", "FORWARD", ";">> >>

MOVES_CODE ==
  << <<"TURN", "RIGHT", ";", "MOVE", "2.5", "BACKWARD", ";", "MOVE", "-3", "FORWARD", ";">>,
     <<"TURN", "LEFT", ";", "MOVE", "25", "LEFT", ";", "MOVE", "1", "RIGHT", ";">>,
     <<"TURN", "LEFT", ";", "MOVE", "4", "BACKWARD", ";">> >>

CALLS_CODE ==
  << <<"FUNCTION", "F", ":">>,
     <<"TURN", "LEFT", ";">>,
     <<"//", "step", "forward">>,
     <<"MOVE", "1", "FORWARD", ";">>,
     <<"END">>,
     <<"CALL", "F", ";", "CALL", "X", ";", "TURN", "RIGHT", ";">> >>

NESTED_CODE ==
  << <<"FUNCTION", "F", ":">>,
     <<"CALL", "G", ";">>,
     <<"TURN", "LEFT", ";">>,
     <<"END", ";">>,
     <<"FUNCTION", "G", ":">>,
     <<"MOVE", "1", "BACKWARD", ";">>,
     <<"END", ";">>,
     <<"CALL", "F", ";", "TURN", "RIGHT", ";">> >>

RECURSIVE_CODE ==
  << <<"FUNCTION", "F", ":">>,
     <<"X", "=", "1", ";">>,
     <<"CALL", "F", ";">>,
     <<"END">>,
     <<"CALL", "F", ";">> >>

IF_CODE ==
  << <<"IF", "0", "THEN", "ATTACK", ";">>,
     <<"IF", "$X", "THEN", "TURN", "LEFT", ";">>,
     <<"IF", "1", "THEN", "MOVE", "9", "FORWARD", ";">>,
     <<"TURN", "RIGHT", ";">> >>

(* a FUNCTION header inside a function block *)
INNER_CODE ==
  << <<"FUNCTION", "F", ":">>,
     <<"FUNCTION", "G", ":">>,
     <<"TURN", "LEFT", ";">>,
     <<"END", ";">>,
     <<"CALL", "F", ";">> >>

SIGHT_CODE ==
  << <<"MOVE", "15", "RIGHT", ";", "SCAN_FOR_ENEMY", ";">>,
     <<"IF", "$ENEMY", "THEN", "ATTACK", "ELSE", "TURN", "LEFT", ";">> >>

EMPTY_CODE == << >>

(* stand under the enemy's fire for seven ticks, then attack and step back *)
WRAITH_CODE ==
  << <<"MOVE", "15", "RIGHT", ";", "MOVE", "12", "FORWARD", ";">>,
     <<"TURN", "LEFT", ";", "TURN", "RIGHT", ";", "TURN", "LEFT", ";", "TURN", "RIGHT", ";">>,
     <<"TURN", "LEFT", ";", "TURN", "RIGHT", ";">>,
     <<"ATTACK", ";", "MOVE", "1", "BACKWARD", ";">> >>

(* a scan and an assignment inside a function, then reads of names never assigned *)
VARS_CODE ==
  << <<"FUNCTION", "F", ":">>,
     <<"SCAN_FOR_ENEMY", ";">>,
     <<"X", "=", "1", ";">>,
     <<"END">>,
     <<"MOVE", "15", "RIGHT", ";", "CALL", "F", ";">>,
     <<"IF", "$G", "THEN", "ATTACK", ";">>,
     <<"IF", "$toString", "THEN", "TURN", "LEFT", ";">> >>

(* an assignment to the variable the scan writes *)
OVERRIDE_CODE ==
  << <<"MOVE", "15", "RIGHT", ";", "SCAN_FOR_ENEMY", ";">>,
     <<"ENEMY", "=", "0", ";">>,
     <<"TURN", "LEFT", ";">> >>

(* a statement no pattern of parseStmt matches, between two that report *)
NOOP_CODE ==
  << <<"TURN", "LEFT", ";", "TURN", "FORWARD", ";", "ATTACK", ";">> >>

(* a Move by an amount that Number() reads as infinite *)
INFINITY_CODE ==
  << <<"TURN", "RIGHT", ";", "MOVE", "Infinity", "FORWARD", ";", "TURN", "LEFT", ";">> >>

(* calls of names that are members of every object *)
PROTO_CODE ==
  << <<"TURN", "LEFT", ";", "CALL", "toString", ";", "TURN", "RIGHT", ";">>,
     <<"CALL", "constructor", ";", "TURN", "LEFT", ";">> >>

Sources == {DEFAULT_CODE, SCENARIO_CODE, HUNTER_CODE, DUCK_CODE, MOVES_CODE, CALLS_CODE,
            NESTED_CODE, RECURSIVE_CODE, IF_CODE, INNER_CODE, SIGHT_CODE, EMPTY_CODE,
            PROTO_CODE, WRAITH_CODE, VARS_CODE, INFINITY_CODE,
            OVERRIDE_CODE, NOOP_CODE}

---------------------------------------------------------------------------
(* The component: state, one tick, code edits, reset *)

(* the statement stepProgram fetches in runtime state r, Null when the active
   program counter is past the end of the active list *)
ActiveList(p, r) == IF r.stack # <<>> THEN r.stack[Len(r.stack)].body ELSE p.stmts
ActivePc(r) == IF r.stack # <<>> THEN r.stack[Len(r.stack)].pc ELSE r.pc
Fetched(p, r) ==
  IF ActivePc(r) >= Len(ActiveList(p, r)) THEN Null ELSE ActiveList(p, r)[ActivePc(r) + 1]

Observe(op, w0, r0, s, we) ==
  [op |-> op, w0 |-> w0, rt0 |-> r0, ws |-> s.world, rts |-> s.rt,
   did |-> s.did, prims |-> s.prims, we |-> we]
NoStep(op, w, r) == Observe(op, w, r, StepResult(w, r, FALSE, <<>>), w)

IdleCall == [active |-> FALSE, base |-> 0, n |-> 0, steps |-> 0, pushed |-> FALSE]
(* follows the first CALL of a defined function until its frame is gone *)
CallObserved(c, p, r0, s) ==
  LET st == Fetched(p, r0)
      pushes == Len(s.rt.stack) > Len(r0.stack)
  IN IF c.active /\ Len(r0.stack) > c.base
     THEN [c EXCEPT !.steps = @ + 1, !.pushed = @ \/ pushes]
     ELSE IF st.kind = "call" /\ st.name \in DOMAIN p.functions
     THEN [active |-> TRUE, base |-> Len(r0.stack), n |-> Len(p.functions[st.name]),
           steps |-> 0, pushed |-> FALSE]
     ELSE IdleCall

(* nothing looked at yet *)
(* what the closures of a render hold *)
Shown(p, r) == [prog |-> p, rt |-> r]

(* variant: nothing happens once the program has finished *)
Tick_idleWhenFinished(w, p, r) ==
  LET s == stepProgram(w, p, r)
      we == IF s.did THEN enemyStep(s.world) ELSE s.world
  IN [s |-> s, we |-> we,
      world |-> IF s.did THEN WinLose([we EXCEPT !.tick = @ + 1]) ELSE w]

(* the updater stepOnce hands to setWorld, applied to the world w with the prog
   p and the runtime r of the closure: the step result, the world the enemy
   leaves, and the world returned *)
Tick(w, p, r) ==
  LET s == stepProgram(w, p, r)
      we == enemyStep(s.world)
  IN [s |-> s, we |-> we, world |-> WinLose([we EXCEPT !.tick = @ + 1])]

NoLook == [done |-> FALSE, a |-> makeInitialWorld.player, results |-> <<>>]
NoSweep == [cell |-> 0, combos |-> {}]
(* nothing parsedText yet *)
NoParse == [done |-> FALSE, code |-> <<>>, tokens |-> <<>>, prog |-> parseProgram(<<>>)]

Init ==
  /\ world = makeInitialWorld
  /\ rt = makeRuntime
  /\ prog = parseProgram(DEFAULT_CODE)
  /\ last = NoStep("init", makeInitialWorld, makeRuntime)
  /\ run = 0
  /\ call = IdleCall
  /\ ticks = 0
  /\ edits = 0
  /\ resets = 0
  /\ mounted = TRUE
  /\ shown = Shown(parseProgram(DEFAULT_CODE), makeRuntime)
  /\ look = NoLook
  /\ sweep = NoSweep
  /\ parsedText = NoParse
  /\ start = world

(* one tick, and the render that follows it.  An exception in the updater
   escapes the render and unmounts the component, the state left as it was; an
   updater that never returns leaves the component as dead. *)
stepOnce ==
  /\ mounted
  /\ ticks < MaxTicks
  /\ LET t == Tick(world, shown.prog, shown.rt)
     IN IF t.s.threw \/ t.s.hung
        THEN /\ mounted' = FALSE
             /\ last' = NoStep(IF t.s.hung THEN "hung" ELSE "threw", world, rt)
             /\ UNCHANGED <<world, rt, call, shown>>
        ELSE /\ world' = t.world
             /\ rt' = t.s.rt
             /\ last' = Observe("stepOnce", world, shown.rt, t.s, t.we)
             /\ call' = CallObserved(call, shown.prog, shown.rt, t.s)
             /\ shown' = Shown(prog, t.s.rt)
             /\ UNCHANGED mounted
  /\ run' = IF run >= 0 THEN run + 1 ELSE run
  /\ ticks' = ticks + 1
  /\ UNCHANGED <<prog, edits, resets, look, sweep, parsedText, start>>

(* the user edits the text; the effect re-parses it *)
setCode ==
  /\ mounted
  /\ edits < MaxEdits
  /\ \E code \in Sources : prog' = parseProgram(code)
  /\ shown' = Shown(prog', rt)
  /\ last' = NoStep("setCode", world, rt)
  /\ run' = IF rt = makeRuntime /\ world = makeInitialWorld THEN 0 ELSE -1
  /\ edits' = edits + 1
  /\ UNCHANGED <<world, rt, call, ticks, resets, mounted, look, sweep, parsedText, start>>

resetAll ==
  /\ mounted
  /\ resets < MaxResets
  /\ shown' = Shown(prog, makeRuntime)
  /\ world' = makeInitialWorld
  /\ rt' = makeRuntime
  /\ last' = NoStep("resetAll", makeInitialWorld, makeRuntime)
  /\ run' = 0
  /\ call' = IdleCall
  /\ resets' = resets + 1
  /\ UNCHANGED <<prog, ticks, edits, mounted, look, sweep, parsedText, start>>

Next == stepOnce \/ setCode \/ resetAll

Spec == Init /\ [][Next]_vars

---------------------------------------------------------------------------
(* Properties of the stepper, stated on the observation of the latest tick *)

IsStep == last.op = "stepOnce"
(* the statement the latest step call fetched, Null when there was none *)
LastStmt == Fetched(prog, last.rt0)
TanksSame(w1, w2) == w1.player = w2.player /\ w1.enemy = w2.enemy

(* C1: a call to step dispatches at most one statement: the stack depth changes
   by at most 1, only the program counter that was active may change and then
   by exactly 1, the frames below keep their label and body, and at most one
   world primitive is applied (none means both tanks are as before). *)
C1_OneStatement ==
  IsStep =>
    LET r0 == last.rt0
        r1 == last.rts
        d0 == Len(r0.stack)
        d1 == Len(r1.stack)
        common == 1..Min2(d0, d1)
    IN /\ d1 - d0 \in {-1, 0, 1}
       /\ r1.pc - r0.pc \in {0, 1}
       /\ r1.pc # r0.pc => d0 = 0
       /\ \A i \in common :
            /\ r1.stack[i].pc - r0.stack[i].pc \in {0, 1}
            /\ r1.stack[i].pc # r0.stack[i].pc => i = d0
            /\ r1.stack[i].name = r0.stack[i].name
            /\ r1.stack[i].body = r0.stack[i].body
       /\ d1 > d0 => r1.stack[d1].pc = 0
       /\ Len(last.prims) <= 1
       /\ last.prims = <<>> => TanksSame(last.ws, last.w0)

(* a step inside a frame that applied a primitive *)
C1_Witness == IsStep /\ last.did /\ last.rt0.stack # <<>> /\ last.prims # <<>>

(* C2: with an empty stack and the top-level counter at or past the end, step
   returns false and changes neither the runtime nor the world, and the state
   it leaves is again such a state, so every further call does the same. *)
Finished(p, r) == r.stack = <<>> /\ r.pc >= Len(p.stmts)
C2_FinishedIdle ==
  (IsStep /\ Finished(prog, last.rt0)) =>
     /\ last.did = FALSE
     /\ last.rts = last.rt0
     /\ last.ws = last.w0
     /\ Finished(prog, rt)

(* a program that ran its statements and was then stepped again *)
C2_Witness == IsStep /\ Finished(prog, last.rt0) /\ last.rt0.pc > 0 /\ ticks > last.rt0.pc

(* C3: both tanks stay on the grid, with health in 0..100 and a facing in 0..3,
   in every state the ticks, edits and resets reach. *)
TankOk(t) ==
  /\ t.x \in 0..(GRID - 1)
  /\ t.y \in 0..(GRID - 1)
  /\ t.hp \in 0..MAX_HP
  /\ t.dir \in 0..3
C3_TanksInRange ==
  /\ TankOk(world.player) /\ TankOk(world.enemy)
  /\ TankOk(last.ws.player) /\ TankOk(last.ws.enemy)

(* a repeated MOVE 9 FORWARD that is stopped by the wall *)
C3_Witness ==
  /\ IsStep /\ LastStmt.kind = "move" /\ LastStmt.dir = "FORWARD"
  /\ last.rt0.stack # <<>>
  /\ last.w0.player.y \in 1..8 /\ last.w0.player.dir = 0
  /\ last.ws.player.y = 0

(* C4: an If whose condition selects an existing branch pushes exactly the frame
   {"<if>", 0, [chosen]} and changes nothing else (no primitive, same world, same
   variables, same counters); an If with no branch for the condition pushes
   nothing, advances the active counter by 1 and reports "IF (<cond>) no-op". *)
LastCond == getVal(LastStmt.cond, last.rt0)
LastChosen == IF ~IsZero(LastCond) THEN LastStmt.thenStmt ELSE LastStmt.elseStmt
C4_IfPushesFrame ==
  (IsStep /\ LastStmt.kind = "if") =>
     /\ last.did
     /\ last.prims = <<>>
     /\ TanksSame(last.ws, last.w0)
     /\ last.rts.vars = last.rt0.vars
     /\ last.rts.enemySeen = last.rt0.enemySeen
     /\ IF LastChosen # Undefined
        THEN /\ last.rts.stack =
                  Append(last.rt0.stack, [name |-> "<if>", pc |-> 0, body |-> <<LastChosen>>])
             /\ last.rts.pc = last.rt0.pc
             /\ last.ws = last.w0
        ELSE /\ Len(last.rts.stack) = Len(last.rt0.stack)
             /\ ActivePc(last.rts) = ActivePc(last.rt0) + 1
             /\ last.ws.message = "IF (" \o NumStr(LastCond) \o ") no-op"

(* an If that chose a Move: the frame is pushed and the actor has not moved *)
C4_Witness ==
  /\ IsStep /\ LastStmt.kind = "if" /\ LastChosen # Undefined
  /\ LastChosen.kind = "move" /\ Len(rt.stack) = 1

(* C5 as claimed: after CALL f of a defined f with N statements the callee's
   frames are on the stack for the next N steps and gone after exactly N+1. *)
C5_DrainAnyBody ==
  call.active =>
     /\ Len(rt.stack) > call.base => call.steps <= call.n
     /\ Len(rt.stack) <= call.base => call.steps = call.n + 1

(* C5 amended: the same, provided no step since the CALL pushed a frame (the
   body executed no Call of a defined function and no If that chose a branch). *)
C5_DrainPlainBody ==
  (call.active /\ ~call.pushed) =>
     /\ Len(rt.stack) > call.base => call.steps <= call.n
     /\ Len(rt.stack) <= call.base => call.steps = call.n + 1

(* a two-statement function has returned after three steps *)
C5_Witness ==
  /\ call.active /\ ~call.pushed /\ call.n = 2
  /\ call.steps = 3 /\ Len(rt.stack) = call.base

(* C6: the scenario MOVEMENT = 2; SCAN_FOR_ENEMY; IF $ENEMY THEN ATTACK ELSE
   MOVE $MOVEMENT FORWARD; from a fresh runtime and world: step 1 sets MOVEMENT
   to 2, step 2 sets ENEMY to 0 and reports "No enemy in sight.", step 3 pushes
   the frame of the Move without moving, step 4 moves 2 cells forward and
   reports "MOVE 2 FORWARD", step 5 pops the frame; all five return true. *)
ScenarioProgram == parseProgram(SCENARIO_CODE)
C6_Scenario ==
  (IsStep /\ prog = ScenarioProgram /\ run \in 1..5) =>
     /\ last.did
     /\ run = 1 => getVal(VarExpr("MOVEMENT"), last.rts) = Num(2)
     /\ run = 2 => /\ getVal(VarExpr("ENEMY"), last.rts) = Num(0)
                   /\ last.ws.message = "No enemy in sight."
     /\ run = 3 => /\ Len(last.rts.stack) = 1
                   /\ last.rts.stack[1].name = "<if>"
                   /\ last.rts.stack[1].body =
                        <<MoveStmt(VarExpr("MOVEMENT"), "FORWARD")>>
                   /\ last.ws.player = last.w0.player
     /\ run = 4 => /\ last.ws.player.y = last.w0.player.y - 2
                   /\ last.ws.player.x = last.w0.player.x
                   /\ last.ws.message = "MOVE 2 FORWARD"
     /\ run = 5 => last.rts.stack = <<>> /\ last.rt0.stack # <<>>

(* C7: Attack hits iff the line of sight from actor to opponent is seen, faces
   the opponent and is at most 3 long; a hit takes 40 health, not below 0, and
   reports the hit; a miss leaves the health; from 100 the hits give 60, 20, 0. *)
C7_Attack ==
  (IsStep /\ LastStmt.kind = "attack") =>
     LET los == lineOfSight(last.w0.player, last.w0.enemy)
         hit == los.seen /\ los.dirOk /\ los.distance <= 3
         hp == last.w0.enemy.hp
     IN /\ hit => /\ last.ws.enemy.hp = (IF hp >= 40 THEN hp - 40 ELSE 0)
                  /\ last.ws.message = "ATTACK hit! Enemy -40 HP"
                  /\ hp = 100 => last.ws.enemy.hp = 60
                  /\ hp = 60 => last.ws.enemy.hp = 20
                  /\ hp = 20 => last.ws.enemy.hp = 0
        /\ ~hit => last.ws.enemy.hp = hp /\ last.ws.message # "ATTACK hit! Enemy -40 HP"
        /\ last.ws.enemy.hp >= 0
        /\ last.ws.player = last.w0.player

(* the third qualifying attack takes the opponent from 20 to 0 *)
C7_Witness ==
  /\ IsStep /\ LastStmt.kind = "attack"
  /\ last.w0.enemy.hp = 20 /\ last.ws.enemy.hp = 0

---------------------------------------------------------------------------
(* lineOfSight over the whole grid.  SpecLos draws an observer (cell and     *)
(* facing) and applies lineOfSight to a target on every cell.  SpecSweep     *)
(* visits the observer cells in order and collects the (seen, dirOk) pairs   *)
(* lineOfSight returns for every facing and every target cell.               *)

Cells == (0..(GRID - 1)) \X (0..(GRID - 1))
TankAt(x, y, dir) == [x |-> x, y |-> y, dir |-> dir, hp |-> MAX_HP]
TargetAt(c) == TankAt(c[1], c[2], 2)

AppInit ==
  /\ world = makeInitialWorld
  /\ rt = makeRuntime
  /\ prog = parseProgram(DEFAULT_CODE)
  /\ last = NoStep("init", makeInitialWorld, makeRuntime)
  /\ run = 0
  /\ call = IdleCall
  /\ ticks = 0
  /\ edits = 0
  /\ resets = 0
  /\ mounted = TRUE
  /\ shown = Shown(parseProgram(DEFAULT_CODE), makeRuntime)

InitLos ==
  /\ AppInit
  /\ \E c \in Cells, dir \in 0..3 :
       look = [done |-> FALSE, a |-> TankAt(c[1], c[2], dir), results |-> <<>>]
  /\ sweep = NoSweep
  /\ parsedText = NoParse
  /\ start = world

Look ==
  /\ ~look.done
  /\ look' = [look EXCEPT !.done = TRUE,
                          !.results = [c \in Cells |-> lineOfSight(look.a, TargetAt(c))]]
  /\ UNCHANGED <<appVars, sweep, parsedText, start>>

NextLos == Look

SpecLos == InitLos /\ [][NextLos]_vars

InitSweep ==
  /\ AppInit
  /\ look = NoLook
  /\ sweep = NoSweep
  /\ parsedText = NoParse
  /\ start = world

SweepCell ==
  /\ sweep.cell < GRID * GRID
  /\ LET x == sweep.cell % GRID
         y == sweep.cell \div GRID
         res == {lineOfSight(TankAt(x, y, dir), TargetAt(c)) : dir \in 0..3, c \in Cells}
     IN sweep' = [cell |-> sweep.cell + 1,
                  combos |-> sweep.combos \cup {<<r.seen, r.dirOk>> : r \in res}]
  /\ UNCHANGED <<appVars, look, parsedText, start>>

NextSweep == SweepCell

SpecSweep == InitSweep /\ [][NextSweep]_vars

(* C8: for every observer and target cell, seen holds iff the two share exactly
   one coordinate; sharing one, the distance is the offset along the other;
   sharing none gives not seen, not facing and distance 999; the same cell gives
   not seen. *)
C8_LineOfSight ==
  look.done =>
    \A c \in Cells :
      LET r == look.results[c]
          sameX == look.a.x = c[1]
          sameY == look.a.y = c[2]
          offX == IF c[1] >= look.a.x THEN c[1] - look.a.x ELSE look.a.x - c[1]
          offY == IF c[2] >= look.a.y THEN c[2] - look.a.y ELSE look.a.y - c[2]
      IN /\ r.seen <=> ((sameX \/ sameY) /\ ~(sameX /\ sameY))
         /\ (sameX /\ ~sameY) => r.distance = offY
         /\ (sameY /\ ~sameX) => r.distance = offX
         /\ (~sameX /\ ~sameY) => (~r.seen /\ ~r.dirOk /\ r.distance = 999)
         /\ (sameX /\ sameY) => ~r.seen

(* an observer on one edge sees a target on the opposite edge, and not its own cell *)
C8_Witness ==
  /\ look.done
  /\ \E c \in Cells : look.results[c].seen /\ look.results[c].distance = GRID - 1
  /\ ~look.results[<<look.a.x, look.a.y>>].seen

SweepDone == sweep.cell = GRID * GRID

(* C9 as claimed: over all observers, facings and targets each of the four
   (seen, dirOk) pairs is returned, dirOk without seen included. *)
C9_AllCombinations ==
  SweepDone => \A sn \in BOOLEAN, ok \in BOOLEAN : <<sn, ok>> \in sweep.combos

(* C9 amended: dirOk is returned only together with seen; over the whole grid
   exactly the pairs (seen, dirOk), (seen, not dirOk) and (not seen, not dirOk)
   are returned. *)
C9_FacingOnlyWhenSeen ==
  /\ \A cb \in sweep.combos : cb[2] => cb[1]
  /\ SweepDone => sweep.combos = {<<TRUE, TRUE>>, <<TRUE, FALSE>>, <<FALSE, FALSE>>}

(* the sweep is complete and met a target seen by an observer not facing it *)
C9_Witness == SweepDone /\ <<TRUE, FALSE>> \in sweep.combos

---------------------------------------------------------------------------
(* Move from every cell and facing.  SpecMove draws the actor's cell and     *)
(* facing, the variable store and a one-statement MOVE source, and applies   *)
(* stepProgram once.                                                         *)

MoveAmounts == {"-3", "-0.5", "0", "1", "2.5", "7", "25", "$ENEMY"}
MoveSource(a, d) == << <<"MOVE", a, d, ";">> >>
EnemySeenRuntime ==
  [makeRuntime EXCEPT !.vars = ("ENEMY" :> Num(1)) @@ NoVars, !.enemySeen = Num(1)]

InitMove ==
  /\ \E c \in Cells, dir \in 0..3 :
       world = [makeInitialWorld EXCEPT !.player = TankAt(c[1], c[2], dir)]
  /\ rt \in {makeRuntime, EnemySeenRuntime}
  /\ \E a \in MoveAmounts, d \in DirWords : prog = parseProgram(MoveSource(a, d))
  /\ last = NoStep("init", world, rt)
  /\ run = 0
  /\ call = IdleCall
  /\ ticks = 0
  /\ edits = 0
  /\ resets = 0
  /\ mounted = TRUE
  /\ shown = Shown(prog, rt)
  /\ look = NoLook
  /\ sweep = NoSweep
  /\ parsedText = NoParse
  /\ start = world

stepMove ==
  /\ last.op = "init"
  /\ LET s == stepProgram(world, prog, rt)
     IN /\ world' = s.world
        /\ rt' = s.rt
        /\ last' = Observe("stepProgram", world, rt, s, s.world)
  /\ UNCHANGED <<prog, run, call, ticks, edits, resets, mounted, shown, look, sweep, parsedText, start>>

NextMove == stepMove

SpecMove == InitMove /\ [][NextMove]_vars

(* C10: Move(amount, dir) leaves the actor at x + n*dx, y + n*dy, each brought
   into 0..GRID-1, with n = max(0, floor(amount)) and (dx, dy) the unit vector of
   the facing f (FORWARD), its negation (BACKWARD), of f+3 mod 4 (LEFT), of f+1
   mod 4 (RIGHT); a negative amount moves nothing; facing, health, opponent and
   variables stay; the message is "MOVE <n> <dir>". *)
IntoGrid(v) == IF v < 0 THEN 0 ELSE IF v > GRID - 1 THEN GRID - 1 ELSE v
C10_Move ==
  (last.op = "stepProgram" /\ LastStmt.kind = "move") =>
    LET p0 == last.w0.player
        p1 == last.ws.player
        amount == getVal(LastStmt.amount, last.rt0)
        n == IF amount.n > 0 THEN amount.n ELSE 0
        f == p0.dir
        u == CASE LastStmt.dir = "FORWARD" -> DIRS[f + 1]
               [] LastStmt.dir = "BACKWARD" -> [dx |-> -DIRS[f + 1].dx, dy |-> -DIRS[f + 1].dy]
               [] LastStmt.dir = "LEFT" -> DIRS[((f + 3) % 4) + 1]
               [] LastStmt.dir = "RIGHT" -> DIRS[((f + 1) % 4) + 1]
    IN /\ p1.x = IntoGrid(p0.x + n * u.dx)
       /\ p1.y = IntoGrid(p0.y + n * u.dy)
       /\ NumLt(amount, Num(0)) => p1 = p0
       /\ p1.dir = p0.dir /\ p1.hp = p0.hp
       /\ last.ws.enemy = last.w0.enemy
       /\ last.rts.vars = last.rt0.vars
       /\ last.ws.message = "MOVE " \o ToString(n) \o " " \o LastStmt.dir
       /\ last.did

(* MOVE 2.5 LEFT while facing down, one cell from the right wall: one cell is moved *)
C10_Witness ==
  /\ last.op = "stepProgram" /\ LastStmt.kind = "move" /\ LastStmt.dir = "LEFT"
  /\ getVal(LastStmt.amount, last.rt0) = NumHalf(2)
  /\ last.w0.player.dir = 2 /\ last.w0.player.x = GRID - 2
  /\ last.ws.player.x = GRID - 1

---------------------------------------------------------------------------
(* Calls *)

(* C11: a Call of a name that is not in the function table pushes no frame,
   advances the caller's counter by 1, reports "CALL <name>", returns true and
   changes neither the tanks nor the variables. *)
C11_UndefinedCall ==
  (IsStep /\ LastStmt.kind = "call" /\ LastStmt.name \notin DOMAIN prog.functions) =>
     /\ last.did
     /\ Len(last.rts.stack) = Len(last.rt0.stack)
     /\ ActivePc(last.rts) = ActivePc(last.rt0) + 1
     /\ last.ws.message = "CALL " \o LastStmt.name
     /\ TanksSame(last.ws, last.w0)
     /\ last.rts.vars = last.rt0.vars

---------------------------------------------------------------------------
(* Destroyed tanks and the enemy policy within a tick *)

SamePlace(t1, t2) == t1.x = t2.x /\ t1.y = t2.y /\ t1.dir = t2.dir

(* C12: a tank whose health is 0 is inert: a tick that starts with a tank at
   health 0 leaves that tank's position and facing as they were and takes no
   health from the other tank. *)
C12_InertAtZero ==
  IsStep =>
     /\ last.w0.player.hp = 0 =>
          /\ SamePlace(last.we.player, last.w0.player)
          /\ last.we.enemy.hp = last.w0.enemy.hp
     /\ last.w0.enemy.hp = 0 =>
          /\ SamePlace(last.we.enemy, last.w0.enemy)
          /\ last.we.player.hp = last.w0.player.hp

---------------------------------------------------------------------------
(* The enemy policy alone.  SpecEnemy draws the enemy's cell, facing and     *)
(* health, the actor's cell and health and the message, and applies          *)
(* enemyStep once.                                                           *)

ActorCells == {<<0, 0>>, <<10, 10>>, <<19, 7>>}
EnemyHealths == {0, 20, MAX_HP}
ActorHealths == {0, 10, MAX_HP}
Messages == {"", "TURN LEFT"}

InitEnemy ==
  /\ \E ec \in Cells, ed \in 0..3, eh \in EnemyHealths,
        pc \in ActorCells, ph \in ActorHealths, m \in Messages :
       world = [player |-> [TankAt(pc[1], pc[2], 0) EXCEPT !.hp = ph],
                enemy |-> [TankAt(ec[1], ec[2], ed) EXCEPT !.hp = eh],
                tick |-> 0,
                message |-> m]
  /\ rt = makeRuntime
  /\ prog = parseProgram(EMPTY_CODE)
  /\ last = NoStep("init", world, rt)
  /\ run = 0
  /\ call = IdleCall
  /\ ticks = 0
  /\ edits = 0
  /\ resets = 0
  /\ mounted = TRUE
  /\ shown = Shown(prog, rt)
  /\ look = NoLook
  /\ sweep = NoSweep
  /\ parsedText = NoParse
  /\ start = world

enemyAct ==
  /\ last.op = "init"
  /\ world' = enemyStep(world)
  /\ last' = Observe("enemyStep", world, rt, StepResult(world, rt, FALSE, <<>>), world')
  /\ UNCHANGED <<rt, prog, run, call, ticks, edits, resets, mounted, shown, look, sweep, parsedText, start>>

NextEnemy == enemyAct

SpecEnemy == InitEnemy /\ [][NextEnemy]_vars

IsEnemyStep == last.op = "enemyStep"
(* the enemy is alive and its line of sight to the actor lets it fire *)
EnemyFires(w) ==
  LET los == lineOfSight(w.enemy, w.player)
  IN w.enemy.hp > 0 /\ los.seen /\ los.dirOk /\ los.distance <= 3

(* C13: when the opponent is alive and sees the actor, facing it, within 3, the
   policy sets the actor's health to max(0, health - 15), appends
   " | Enemy fires (-15 HP)" to the message and leaves the opponent where it
   is, facing as it was. *)
C13_EnemyFires ==
  (IsEnemyStep /\ EnemyFires(last.w0)) =>
     /\ last.we.player.hp =
          (IF last.w0.player.hp >= 15 THEN last.w0.player.hp - 15 ELSE 0)
     /\ last.we.message = last.w0.message \o " | Enemy fires (-15 HP)"
     /\ SamePlace(last.we.enemy, last.w0.enemy)
     /\ SamePlace(last.we.player, last.w0.player)
     /\ last.we.enemy.hp = last.w0.enemy.hp

(* a fire on an actor with 10 health left, appended to an earlier message *)
C13_Witness ==
  /\ IsEnemyStep /\ EnemyFires(last.w0)
  /\ last.w0.player.hp = 10 /\ last.we.player.hp = 0
  /\ last.w0.message = "TURN LEFT"

(* C14: when the opponent is alive and does not fire, it turns to face the actor
   along the axis of the larger absolute offset (the vertical axis when the two
   are equal), then moves one cell along its new facing, kept on the grid. *)
C14_TurnToLargerOffset ==
  (IsEnemyStep /\ last.w0.enemy.hp > 0 /\ ~EnemyFires(last.w0)) =>
     LET e == last.w0.enemy
         ox == last.w0.player.x - e.x
         oy == last.w0.player.y - e.y
         ax == IF ox < 0 THEN -ox ELSE ox
         ay == IF oy < 0 THEN -oy ELSE oy
         f == IF ax > ay THEN (IF ox > 0 THEN 1 ELSE 3) ELSE (IF oy > 0 THEN 2 ELSE 0)
     IN /\ last.we.enemy.dir = f
        /\ last.we.enemy.x = IntoGrid(e.x + DIRS[f + 1].dx)
        /\ last.we.enemy.y = IntoGrid(e.y + DIRS[f + 1].dy)

(* C15: when the opponent's health is 0 the policy changes nothing: both tanks
   and the message are after the call as before it. *)
C15_DeadEnemyIdle ==
  (IsEnemyStep /\ last.w0.enemy.hp = 0) => last.we = last.w0

(* a destroyed opponent, in firing position, called and left as it was *)
C15_Witness ==
  LET los == lineOfSight(last.w0.enemy, last.w0.player)
  IN /\ IsEnemyStep /\ last.w0.enemy.hp = 0
     /\ los.seen /\ los.dirOk /\ los.distance <= 3
     /\ last.w0.player.hp = 10 /\ last.we.player.hp = 10

---------------------------------------------------------------------------
(* The tick *)

(* C16: every tick makes one step call, then one opponent-policy call on the
   world the step left, then adds 1 to the tick counter, also when the step
   returns false: the opponent keeps acting and the counter keeps counting
   after the program has finished. *)
C16_TickOrder ==
  IsStep =>
     LET s == stepProgram(last.w0, prog, last.rt0)
     IN /\ last.ws = s.world /\ last.rts = s.rt /\ last.did = s.did
        /\ rt = last.rts
        /\ last.we = enemyStep(last.ws)
        /\ TanksSame(world, last.we)
        /\ world.tick = last.w0.tick + 1

(* a tick after the program has finished: the enemy moved and the tick counted *)
C16_Witness ==
  /\ IsStep /\ ~last.did
  /\ last.we.enemy # last.ws.enemy
  /\ world.tick = last.w0.tick + 1 /\ world.tick > Len(prog.stmts) + 1

---------------------------------------------------------------------------
(* Ticks requested before the component has rendered again.  stepOnce reads  *)
(* prog and rt from the closure of the latest render, and the world from the *)
(* argument of the updater.  In SpecOverlap a tick is not followed by a      *)
(* render at once: the render is a step of its own, so a second stepOnce     *)
(* call can come from the same closure.                                      *)

InitOverlap ==
  /\ world = makeInitialWorld
  /\ rt = makeRuntime
  /\ \E code \in Sources : prog = parseProgram(code)
  /\ last = NoStep("init", makeInitialWorld, makeRuntime)
  /\ run = 0
  /\ call = IdleCall
  /\ ticks = 0
  /\ edits = 0
  /\ resets = 0
  /\ mounted = TRUE
  /\ shown = Shown(prog, makeRuntime)
  /\ look = NoLook
  /\ sweep = NoSweep
  /\ parsedText = NoParse
  /\ start = world

(* stepOnce called by a click or a timer callback: setWorld(updater), setRt(rt2) *)
requestTick ==
  /\ mounted
  /\ ticks < MaxTicks
  /\ LET t == Tick(world, shown.prog, shown.rt)
     IN IF t.s.threw \/ t.s.hung
        THEN /\ mounted' = FALSE
             /\ last' = NoStep(IF t.s.hung THEN "hung" ELSE "threw", world, rt)
             /\ UNCHANGED <<world, rt>>
        ELSE /\ world' = t.world
             /\ rt' = t.s.rt
             /\ last' = Observe("stepOnce", world, shown.rt, t.s, t.we)
             /\ UNCHANGED mounted
  /\ ticks' = ticks + 1
  /\ UNCHANGED <<prog, run, call, edits, resets, shown, look, sweep, parsedText, start>>

(* the component renders: new closures over the current prog and rt *)
render ==
  /\ mounted
  /\ shown # Shown(prog, rt)
  /\ shown' = Shown(prog, rt)
  /\ UNCHANGED <<world, rt, prog, last, run, call, ticks, edits, resets, mounted, look, sweep, parsedText, start>>

NextOverlap == requestTick \/ render

SpecOverlap == InitOverlap /\ [][NextOverlap]_vars

(* C17: each tick starts from the state the previous tick left: also when two
   ticks are requested before the component renders again, the step of a tick
   runs on the runtime state the tick before it produced. *)
C17_TickFromLatestRuntime ==
  [][(ticks' = ticks + 1 /\ last'.op = "stepOnce") => last'.rt0 = rt]_vars

---------------------------------------------------------------------------
(* The parser over many texts.  SpecParse draws a text of up to MaxLines     *)
(* lines from a small set of lines and applies tokenize and parseProgram.    *)

MaxLines == 6
SourceLines ==
  { <<"FUNCTION", "F", ":">>,
    <<"END">>,
    <<"MOVE", "1", "LEFT", ";", "//", "END">>,
    <<"CALL", "F", ";", "ATTACK", ";">>,
    <<>> }
Texts == UNION {[1..n -> SourceLines] : n \in 0..MaxLines}

InitParse ==
  /\ AppInit
  /\ look = NoLook
  /\ sweep = NoSweep
  /\ \E code \in Texts : parsedText = [NoParse EXCEPT !.code = code]
  /\ start = world

parse ==
  /\ ~parsedText.done
  /\ parsedText' = [parsedText EXCEPT !.done = TRUE,
                              !.tokens = tokenize(parsedText.code),
                              !.prog = parseProgram(parsedText.code)]
  /\ UNCHANGED <<appVars, look, sweep, start>>

NextParse == parse

SpecParse == InitParse /\ [][NextParse]_vars

IsFunctionDecl(st) == st.kind = "function"
NotFunctionDecl(st) == st.kind # "function"
NoDeclIn(list) == \A i \in 1..Len(list) : list[i].kind # "function"

(* C18: the Program parseProgram returns has no statement of kind function in
   its top-level sequence nor in any body of its function table, also when a
   FUNCTION header line stands inside another function block. *)
C18_NoDeclInSequences ==
  parsedText.done =>
     /\ NoDeclIn(parsedText.prog.stmts)
     /\ \A f \in DOMAIN parsedText.prog.functions : NoDeclIn(parsedText.prog.functions[f])

(* C19: parseProgram puts every parsed function declaration into the table under
   its name, a later one replacing an earlier one of that name, and appends
   every other parsed statement to the top-level sequence in source order. *)
C19_Routing ==
  parsedText.done =>
     LET toks == parsedText.tokens
         sts == [k \in 1..Len(toks) |-> parseStmt(toks[k])]
         decls == {k \in 1..Len(toks) : IsFunctionDecl(sts[k])}
     IN /\ parsedText.prog.stmts = SelectSeq(sts, NotFunctionDecl)
        /\ DOMAIN parsedText.prog.functions = {sts[k].name : k \in decls}
        /\ \A k \in decls :
             (\A j \in decls : sts[j].name = sts[k].name => j <= k)
               => parsedText.prog.functions[sts[k].name] = sts[k].body

(* two declarations of F with different bodies, and statements between them *)
C19_Witness ==
  /\ parsedText.done
  /\ \E j, k \in 1..Len(parsedText.tokens) :
       LET a == parseStmt(parsedText.tokens[j])
           b == parseStmt(parsedText.tokens[k])
       IN /\ j < k /\ IsFunctionDecl(a) /\ IsFunctionDecl(b)
          /\ a.name = b.name /\ a.body # b.body
          /\ parsedText.prog.functions[a.name] = b.body
  /\ Len(parsedText.prog.stmts) >= 1

(* the lines of a text the lexer works on: comments stripped, blank lines gone *)
Stripped(code) == SelectSeq(stripComments(code), NonEmpty)

(* C20: a block from a FUNCTION header line to its END line yields exactly one
   token holding the header, the body lines and END, whatever blank lines or
   comments it contains, and the lines after the END are tokenized as ordinary
   text: for a text pre, header, body, END line, post, with no header line in
   pre and no END line in body, the tokens are those of pre, the one block
   token, then those of post. *)
C20_BlockIsOneToken ==
  parsedText.done =>
     LET code == parsedText.code
         n == Len(code)
         clean == stripComments(code)
     IN \A i \in 1..n, j \in 1..n :
          ( /\ i < j
            /\ IsFunctionHeader(clean[i]) /\ IsEndLine(clean[j])
            /\ \A k \in 1..(i - 1) : ~IsFunctionHeader(clean[k])
            /\ \A k \in (i + 1)..(j - 1) : ~IsEndLine(clean[k]) )
          => parsedText.tokens =
               tokenize(SubSeq(code, 1, i - 1))
               \o <<Join(<<clean[i]>> \o Stripped(SubSeq(code, i + 1, j - 1)) \o <<(<<"END">>)>>, NL)>>
               \o tokenize(SubSeq(code, j + 1, n))

(* a block holding a blank line and a commented statement, followed by a line
   of two statements: three tokens *)
C20_Witness ==
  /\ parsedText.done
  /\ parsedText.code = << <<"FUNCTION", "F", ":">>, <<>>,
                      <<"MOVE", "1", "LEFT", ";", "//", "END">>, <<"END">>,
                      <<"CALL", "F", ";", "ATTACK", ";">> >>
  /\ Len(parsedText.tokens) = 3
  /\ parsedText.tokens[1] = <<"FUNCTION", "F", ":", NL, "MOVE", "1", "LEFT", ";", NL, "END">>

---------------------------------------------------------------------------
(* Variables *)

(* the expression is a variable with no entry in the store r *)
Unbound(e, r) == e.kind = "var" /\ e.name \notin DOMAIN r.vars

(* C21: variables are one flat namespace: a step that pushes or pops a frame
   changes no variable, an assignment made inside a frame is in the one store
   every frame and the top level read, and reading a variable that was never
   assigned yields 0: an If on it takes the else side, a Move by it moves 0. *)
C21_FlatNamespace ==
  IsStep =>
     /\ Len(last.rts.stack) # Len(last.rt0.stack) => last.rts.vars = last.rt0.vars
     /\ LastStmt.kind = "assign" =>
          /\ LastStmt.name \in DOMAIN last.rts.vars
          /\ getVal(VarExpr(LastStmt.name), [makeRuntime EXCEPT !.vars = last.rts.vars])
               = last.rts.vars[LastStmt.name]
     /\ (LastStmt.kind = "if" /\ Unbound(LastStmt.cond, last.rt0)) =>
          IF LastStmt.elseStmt = Undefined
          THEN /\ Len(last.rts.stack) = Len(last.rt0.stack)
               /\ last.ws.message = "IF (0) no-op"
          ELSE /\ Len(last.rts.stack) = Len(last.rt0.stack) + 1
               /\ last.rts.stack[Len(last.rts.stack)].body = <<LastStmt.elseStmt>>
     /\ (LastStmt.kind = "move" /\ Unbound(LastStmt.amount, last.rt0)) =>
          /\ last.ws.player = last.w0.player
          /\ last.ws.message = "MOVE 0 " \o LastStmt.dir

---------------------------------------------------------------------------
(* Termination of a step *)

(* C22: every call to step terminates, for every program parseProgram can give
   and every variable store: a Move completes after finitely many unit steps
   for every amount a literal or a variable can hold. *)
C22_StepTerminates == last.op # "hung"

---------------------------------------------------------------------------
(* The scan result kept twice *)

(* C23: the runtime field enemySeen reflects $ENEMY: in every state reached by
   steps from a fresh runtime, enemySeen equals what reading the variable ENEMY
   yields (0 when unbound), and that value is 1 or 0. *)
C23_EnemySeenReflectsVar ==
  /\ rt.enemySeen = getVal(VarExpr("ENEMY"), rt)
  /\ rt.enemySeen \in {Num(0), Num(1)}

---------------------------------------------------------------------------
(* Turns: programs of Turn statements only, stepped from any facing *)

MaxTurns == 4
TurnSides == {"LEFT", "RIGHT"}
TurnSource(sides) == [i \in 1..Len(sides) |-> <<"TURN", sides[i], ";">>]

InitTurn ==
  /\ \E c \in ActorCells, dir \in 0..3, hp \in ActorHealths :
       world = [makeInitialWorld EXCEPT !.player = [TankAt(c[1], c[2], dir) EXCEPT !.hp = hp]]
  /\ rt = makeRuntime
  /\ \E n \in 1..MaxTurns : \E sides \in [1..n -> TurnSides] :
       prog = parseProgram(TurnSource(sides))
  /\ last = NoStep("init", world, rt)
  /\ run = 0
  /\ call = IdleCall
  /\ ticks = 0
  /\ edits = 0
  /\ resets = 0
  /\ mounted = TRUE
  /\ shown = Shown(prog, rt)
  /\ look = NoLook
  /\ sweep = NoSweep
  /\ parsedText = NoParse
  /\ start = world

stepTurn ==
  /\ ~Finished(prog, rt)
  /\ LET s == stepProgram(world, prog, rt)
     IN /\ world' = s.world
        /\ rt' = s.rt
        /\ last' = Observe("stepProgram", world, rt, s, s.world)
  /\ UNCHANGED <<prog, run, call, ticks, edits, resets, mounted, shown, look, sweep, parsedText, start>>

NextTurn == stepTurn

SpecTurn == InitTurn /\ [][NextTurn]_vars

(* how many of the first n statements turn to the given side *)
TurnsDone(side, n) == Cardinality({i \in 1..n : prog.stmts[i].dir = side})
(* the first n statements all turn to the given side *)
AllTurns(side, n) == \A i \in 1..n : prog.stmts[i].dir = side

(* C24: Turn RIGHT sets the actor's facing to (facing + 1) mod 4 and Turn LEFT
   to (facing - 1) mod 4 in the cyclic order Up, Right, Down, Left; four turns
   to the same side, or a LEFT followed by a RIGHT, restore the original
   facing; a turn changes no position and no health. *)
C24_TurnCycle ==
  /\ last.op = "stepProgram" =>
       /\ LastStmt.kind = "turn"
       /\ last.ws.player.dir \in 0..3
       /\ LastStmt.dir = "RIGHT" => last.ws.player.dir = (last.w0.player.dir + 1) % 4
       /\ LastStmt.dir = "LEFT" => last.ws.player.dir = (last.w0.player.dir - 1) % 4
       /\ last.ws.player.x = last.w0.player.x
       /\ last.ws.player.y = last.w0.player.y
       /\ last.ws.player.hp = last.w0.player.hp
       /\ last.ws.enemy = last.w0.enemy
  /\ world.player.dir =
       (start.player.dir + TurnsDone("RIGHT", rt.pc) - TurnsDone("LEFT", rt.pc)) % 4
  /\ (rt.pc = 4 /\ (AllTurns("LEFT", 4) \/ AllTurns("RIGHT", 4))) =>
       world.player.dir = start.player.dir
  /\ (rt.pc = 2 /\ prog.stmts[1].dir = "LEFT" /\ prog.stmts[2].dir = "RIGHT") =>
       world.player.dir = start.player.dir
  /\ world.player.x = start.player.x /\ world.player.y = start.player.y
  /\ world.player.hp = start.player.hp /\ world.enemy = start.enemy

(* four turns to the left from Up: Left, Down, Right and back to Up *)
C24_Witness ==
  /\ rt.pc = 4 /\ AllTurns("LEFT", 4)
  /\ start.player.dir = 0 /\ world.player.dir = 0
  /\ last.op = "stepProgram" /\ last.w0.player.dir = 1

---------------------------------------------------------------------------
(* A taken If is evaluated again *)

(* the latest step call found the active list exhausted and popped an <if> frame *)
PoppedIf ==
  /\ IsStep /\ LastStmt = Null /\ last.rt0.stack # <<>>
  /\ last.rt0.stack[Len(last.rt0.stack)].name = "<if>"
(* the latest step call fetched an If whose condition selected an existing branch *)
TookBranch == IsStep /\ LastStmt.kind = "if" /\ LastChosen # Undefined

(* C25: after the <if> frame of a taken branch has been popped, the enclosing
   program counter still designates the same If statement, so the next step
   evaluates that If again; as long as its condition keeps selecting an
   existing branch, no statement after the If in the same sequence is executed
   and step never returns false. *)
C25_TakenIfRepeats ==
  run >= 0 =>
    /\ PoppedIf =>
         LET top == last.rt0.stack[Len(last.rt0.stack)]
             again == Fetched(prog, last.rts)
         IN /\ last.did
            /\ last.rts = [last.rt0 EXCEPT !.stack = SubSeq(@, 1, Len(@) - 1)]
            /\ again.kind = "if"
            /\ top.body \in {<<again.thenStmt>>, <<again.elseStmt>>}
    /\ TookBranch =>
         /\ last.did
         /\ Len(last.rts.stack) = Len(last.rt0.stack) + 1
         /\ SubSeq(last.rts.stack, 1, Len(last.rt0.stack)) = last.rt0.stack
         /\ last.rts.pc = last.rt0.pc
    /\ prog = parseProgram(IF_CODE) =>
         /\ rt.pc <= 2
         /\ IsStep => (last.did /\ last.ws.message # "TURN RIGHT")

(* the always-taken If of IF_CODE is back on turn after its frame was popped
   for the second time *)
C25_Witness ==
  /\ prog = parseProgram(IF_CODE) /\ run = 8
  /\ PoppedIf /\ rt.stack = <<>> /\ rt.pc = 2
  /\ Fetched(prog, rt).kind = "if"

---------------------------------------------------------------------------
(* The running game loop: the interval calls stepOnce again and again *)

MaxSiegeTicks == 40

(* stand still, face the approaching enemy and attack on every second tick *)
GUARD_CODE ==
  << <<"FUNCTION", "G", ":">>,
     <<"ATTACK", ";">>,
     <<"CALL", "G", ";">>,
     <<"END">>,
     <<"TURN", "RIGHT", ";", "CALL", "G", ";">> >>

SiegeSources == Sources \cup {GUARD_CODE}

InitSiege ==
  /\ world = makeInitialWorld
  /\ rt = makeRuntime
  /\ \E code \in SiegeSources : prog = parseProgram(code)
  /\ last = NoStep("init", makeInitialWorld, makeRuntime)
  /\ run = 0
  /\ call = IdleCall
  /\ ticks = 0
  /\ edits = 0
  /\ resets = 0
  /\ mounted = TRUE
  /\ shown = Shown(prog, makeRuntime)
  /\ look = NoLook
  /\ sweep = NoSweep
  /\ parsedText = NoParse
  /\ start = world

(* the interval's callback: stepOnce of the latest render *)
intervalTick ==
  /\ mounted
  /\ ticks < MaxSiegeTicks
  /\ LET t == Tick(world, shown.prog, shown.rt)
     IN IF t.s.threw \/ t.s.hung
        THEN /\ mounted' = FALSE
             /\ last' = NoStep(IF t.s.hung THEN "hung" ELSE "threw", world, rt)
             /\ UNCHANGED <<world, rt, call, shown>>
        ELSE /\ world' = t.world
             /\ rt' = t.s.rt
             /\ last' = Observe("stepOnce", world, shown.rt, t.s, t.we)
             /\ call' = CallObserved(call, shown.prog, shown.rt, t.s)
             /\ shown' = Shown(prog, t.s.rt)
             /\ UNCHANGED mounted
  /\ run' = run + 1
  /\ ticks' = ticks + 1
  /\ UNCHANGED <<prog, edits, resets, look, sweep, parsedText, start>>

NextSiege == intervalTick

(* what an intervalTick step does to the tick count, and when it can happen;
   no other step of NextSiege changes ticks *)
intervalFires == mounted /\ ticks < MaxSiegeTicks /\ ticks' = ticks + 1

(* setInterval keeps calling while the game is running: a call that is due
   is eventually made *)
SpecSiege == InitSiege /\ [][NextSiege]_vars /\ WF_ticks(intervalFires)

(* the statement, or a statement nested in it, is of one of the kinds *)
RECURSIVE HasKind(_, _)
HasKind(st, kinds) ==
  \/ st.kind \in kinds
  \/ st.kind = "if" /\ (HasKind(st.thenStmt, kinds) \/ HasKind(st.elseStmt, kinds))
  \/ st.kind = "function" /\ \E i \in DOMAIN st.body : HasKind(st.body[i], kinds)
(* the program has a statement of one of the kinds, functions included *)
ProgramHas(p, kinds) ==
  \/ \E i \in DOMAIN p.stmts : HasKind(p.stmts[i], kinds)
  \/ \E f \in DOMAIN p.functions :
       \E i \in DOMAIN p.functions[f] : HasKind(p.functions[f][i], kinds)
(* ticks keep being applied *)
Ticking == mounted
NeverMoves == ~ProgramHas(prog, {"move"})
NeverMovesNorAttacks == ~ProgramHas(prog, {"move", "attack"})

(* C26, as stated: with a program that never moves the actor, ticking from the
   initial world eventually brings the actor's health to 0, and it stays 0 on
   every later tick. *)
C26_NeverMovingDies == <>[]((NeverMoves /\ Ticking) => world.player.hp = 0)

(* C26, amended: with a program that has no Move and no Attack statement,
   ticking from the initial world eventually brings the actor's health to 0,
   and it stays 0 on every later tick: once the opponent is aligned with the
   actor within 3 cells and facing it, it fires on every tick. *)
C26_PassiveDies ==
  /\ <>[]((NeverMovesNorAttacks /\ Ticking) => world.player.hp = 0)
  /\ []((NeverMovesNorAttacks /\ IsStep /\ EnemyFires(last.w0)) =>
          /\ EnemyFires(last.ws)
          /\ last.we.player.hp = Max2(0, last.ws.player.hp - ENEMY_DAMAGE)
          /\ last.we.enemy = last.ws.enemy)

(* the empty program: the seventh hit, on tick 34, takes the last 10 points *)
C26_Witness ==
  /\ prog = parseProgram(EMPTY_CODE) /\ ticks = 34
  /\ IsStep /\ EnemyFires(last.ws)
  /\ last.ws.player.hp = 10 /\ world.player.hp = 0
  /\ world.enemy.x = 5 /\ world.enemy.y = 17 /\ world.enemy.dir = 3

---------------------------------------------------------------------------
(* Recursion *)

(* the latest step call executed, inside the body of a function, a CALL of
   that same function *)
SelfCall ==
  /\ IsStep /\ LastStmt.kind = "call" /\ last.rt0.stack # <<>>
  /\ last.rt0.stack[Len(last.rt0.stack)].name = LastStmt.name
  /\ HasFunction(prog, LastStmt.name)

(* C27: when a defined function's body calls the function itself, every
   executed CALL pushes a new frame before any frame is popped, so the
   call-stack depth passes every bound and step never returns false; the
   interpreter enforces no upper bound on the depth. *)
C27_RecursionGrows ==
  /\ SelfCall =>
       /\ last.did
       /\ Len(last.rts.stack) = Len(last.rt0.stack) + 1
       /\ last.rts.stack[Len(last.rts.stack)] =
            [name |-> LastStmt.name, pc |-> 0, body |-> LookupFunction(prog, LastStmt.name)]
  /\ prog = parseProgram(RECURSIVE_CODE) =>
       /\ Len(rt.stack) = (ticks + 1) \div 2
       /\ IsStep => /\ last.did
                    /\ Len(last.rts.stack) >= Len(last.rt0.stack)
                    /\ LastStmt.kind = "call" =>
                         Len(last.rts.stack) = Len(last.rt0.stack) + 1

(* the twentieth frame of F on the stack *)
C27_Witness ==
  /\ prog = parseProgram(RECURSIVE_CODE)
  /\ SelfCall /\ Len(last.rt0.stack) = 19 /\ Len(rt.stack) = 20

---------------------------------------------------------------------------
(* The enemy on the actor's cell *)

(* the enemy is alive, next to the actor on its row or column, and faces away *)
NextToNotFacing(w) ==
  LET los == lineOfSight(w.enemy, w.player)
  IN w.enemy.hp > 0 /\ los.seen /\ los.distance = 1 /\ ~los.dirOk
(* the enemy is alive and on the actor's cell *)
OnActorCell(w) ==
  w.enemy.hp > 0 /\ w.enemy.x = w.player.x /\ w.enemy.y = w.player.y

(* C28, as stated: from the actor's cell one policy call turns the opponent Up
   and moves it one cell up. *)
C28_SameCellMovesUp ==
  (IsEnemyStep /\ OnActorCell(last.w0)) =>
     /\ last.we.enemy.dir = 0
     /\ last.we.enemy.x = last.w0.enemy.x
     /\ last.we.enemy.y = last.w0.enemy.y - 1

(* C28, amended: the policy can put the opponent on the actor's cell: alive,
   aligned with the actor at distance 1 and not facing it, one call turns it
   toward the actor and moves it onto the actor's cell without firing; from the
   actor's cell a call turns it Up and moves it one cell up, except in the top
   row, where it stays on the actor's cell. *)
C28_OntoActorCell ==
  IsEnemyStep =>
    /\ NextToNotFacing(last.w0) =>
         /\ lineOfSight([last.w0.enemy EXCEPT !.dir = last.we.enemy.dir],
                        last.w0.player).dirOk
         /\ last.we.enemy.x = last.w0.player.x
         /\ last.we.enemy.y = last.w0.player.y
         /\ last.we.enemy.hp = last.w0.enemy.hp
         /\ last.we.player = last.w0.player
         /\ last.we.message = last.w0.message
    /\ OnActorCell(last.w0) =>
         /\ last.we.enemy.dir = 0
         /\ last.we.enemy.x = last.w0.enemy.x
         /\ last.we.enemy.y = (IF last.w0.enemy.y = 0 THEN 0 ELSE last.w0.enemy.y - 1)
         /\ last.we.enemy.hp = last.w0.enemy.hp
         /\ last.we.player = last.w0.player
         /\ last.we.message = last.w0.message

(* the opponent stood right of the actor facing down and is now on its cell *)
C28_Witness ==
  /\ IsEnemyStep /\ NextToNotFacing(last.w0)
  /\ last.w0.enemy.x = last.w0.player.x + 1 /\ last.w0.enemy.dir = 2
  /\ last.w0.player.hp > 0
  /\ OnActorCell(world) /\ world.enemy.dir = 3

---------------------------------------------------------------------------
(* Health over a tick *)

(* the latest step call executed an Attack that qualifies as a hit *)
QualifyingAttack ==
  LET los == lineOfSight(last.w0.player, last.w0.enemy)
  IN /\ IsStep /\ LastStmt.kind = "attack"
     /\ los.seen /\ los.dirOk /\ los.distance <= 3

(* C29: over any sequence of ticks without a reset, the health of each tank
   never increases; the opponent's health changes only by a qualifying Attack
   (by exactly min(40, health)) and the actor's health changes only by an
   opponent fire (by exactly min(15, health)). *)
C29_HealthOnlyFalls ==
  IsStep =>
    /\ last.ws.player.hp = last.w0.player.hp
    /\ last.ws.enemy.hp =
         (IF QualifyingAttack
          THEN last.w0.enemy.hp - Min2(ATTACK_DAMAGE, last.w0.enemy.hp)
          ELSE last.w0.enemy.hp)
    /\ last.we.enemy.hp = last.ws.enemy.hp
    /\ last.we.player.hp =
         (IF EnemyFires(last.ws)
          THEN last.ws.player.hp - Min2(ENEMY_DAMAGE, last.ws.player.hp)
          ELSE last.ws.player.hp)
    /\ world.player.hp = last.we.player.hp
    /\ world.enemy.hp = last.we.enemy.hp
    /\ world.player.hp <= last.w0.player.hp
    /\ world.enemy.hp <= last.w0.enemy.hp

(* a tick in which the actor hits the opponent and the opponent fires back *)
C29_Witness ==
  /\ IsStep /\ QualifyingAttack /\ EnemyFires(last.ws)
  /\ world.enemy.hp < last.w0.enemy.hp /\ world.enemy.hp > 0
  /\ world.player.hp < last.w0.player.hp

---------------------------------------------------------------------------
(* What the step and the policy leave alone *)

(* C30: step never changes the opponent's position or facing, the actor's
   health or the tick counter; the opponent policy never changes the actor's
   position or facing, the opponent's health, the tick counter or any part of
   the runtime state (pc, stack, variables, enemySeen). *)
C30_Frames ==
  IsStep =>
    /\ SamePlace(last.ws.enemy, last.w0.enemy)
    /\ last.ws.player.hp = last.w0.player.hp
    /\ last.ws.tick = last.w0.tick
    /\ SamePlace(last.we.player, last.ws.player)
    /\ last.we.enemy.hp = last.ws.enemy.hp
    /\ last.we.tick = last.ws.tick
    /\ rt = last.rts
    /\ world.tick = last.w0.tick + 1

(* a tick in which the step moved the actor and the policy moved the opponent *)
C30_Witness ==
  /\ IsStep /\ LastStmt.kind = "move"
  /\ ~SamePlace(last.ws.player, last.w0.player)
  /\ ~SamePlace(last.we.enemy, last.ws.enemy)
  /\ last.rts # last.rt0

---------------------------------------------------------------------------
(* The message over a tick *)

(* what enemyStep appends when it fires, and what stepOnce appends for an
   actor without health *)
FIRE_SUFFIX == " | Enemy fires (-15 HP)"
LOSE_SUFFIX == " | You were destroyed."

(* the latest step call popped a frame, executed a NoOp or a skipped function
   statement, pushed an <if> frame or returned false *)
QuietStep ==
  \/ LastStmt = Null
  \/ LastStmt.kind \in {"noop", "function"}
  \/ LastStmt.kind = "if" /\ LastChosen # Undefined
ScanMessages ==
  {"No enemy in sight."} \cup
  {"Enemy spotted at " \o ToString(d) \o " tiles." : d \in 1..(GRID - 1)}

(* C31: a step that executes Assign, Move, Turn, Scan, Attack, Call or an If
   with no branch replaces the whole message; a step that pops a frame,
   executes a NoOp, pushes an <if> frame or returns false leaves the message
   as it was, so the opponent's fire suffix is appended to the previous tick's
   message and, once the program has finished and the opponent keeps firing,
   the message gains one more fire suffix on every tick. *)
C31_MessageWrites ==
  IsStep =>
    /\ LastStmt.kind = "assign" =>
         last.ws.message =
           "$" \o LastStmt.name \o " = " \o NumStr(last.rts.vars[LastStmt.name])
    /\ LastStmt.kind = "move" =>
         last.ws.message =
           "MOVE " \o NumStr(MathMax(Num(0), MathFloor(getVal(LastStmt.amount, last.rt0))))
                   \o " " \o LastStmt.dir
    /\ LastStmt.kind = "turn" => last.ws.message = "TURN " \o LastStmt.dir
    /\ LastStmt.kind = "scan" => last.ws.message \in ScanMessages
    /\ LastStmt.kind = "attack" =>
         last.ws.message \in {"ATTACK hit! Enemy -40 HP", "ATTACK missed."}
    /\ LastStmt.kind = "call" => last.ws.message = "CALL " \o LastStmt.name
    /\ (LastStmt.kind = "if" /\ LastChosen = Undefined) =>
         last.ws.message = "IF (" \o NumStr(LastCond) \o ") no-op"
    /\ QuietStep => last.ws.message = last.w0.message
    /\ last.we.message =
         (IF EnemyFires(last.ws) THEN last.ws.message \o FIRE_SUFFIX ELSE last.ws.message)
    /\ (QuietStep /\ EnemyFires(last.ws)) =>
         /\ last.we.message = last.w0.message \o FIRE_SUFFIX
         /\ world.message =
              last.w0.message \o FIRE_SUFFIX \o
                (IF world.player.hp <= 0 THEN LOSE_SUFFIX ELSE "")
    /\ (Finished(prog, last.rt0) /\ EnemyFires(last.ws)) =>
         /\ ~last.did
         /\ QuietStep
         /\ Len(world.message) >= Len(last.w0.message) + Len(FIRE_SUFFIX)

(* the empty program under fire: six suffixes after the sixth hit *)
C31_Witness ==
  /\ prog = parseProgram(EMPTY_CODE) /\ IsStep /\ ~last.did
  /\ EnemyFires(last.ws) /\ world.player.hp = 10
  /\ world.message = FIRE_SUFFIX \o FIRE_SUFFIX \o FIRE_SUFFIX \o
                     FIRE_SUFFIX \o FIRE_SUFFIX \o FIRE_SUFFIX

====
